---- MODULE Spec2Model ----
(***************************************************************************)
(* CivicMindAI: the response cache (src/cag.py, CacheModule), the query    *)
(* pipeline that uses it (src/app.py, CivicMindAI.process_civic_query) and *)
(* the feedback manager (src/fl_manager.py, FederatedLearningManager).     *)
(*                                                                         *)
(* Text is modelled by TLA+ strings, one character per position, so that   *)
(* str.lower, str.strip, str.split, str.replace and the substring test are *)
(* computed as Python computes them.  A response text is a sequence of     *)
(* tokens (<<>> is the empty text).  Time is a tick counter; one tick      *)
(* stands for one hour of datetime.now().                                  *)
(***************************************************************************)
EXTENDS Integers, Sequences, FiniteSets, TLC

\* ------------------------------------------------------------------ bounds
\* Longest free-form query string fed to _normalize_query.
MaxLen == 3
\* Last value of the clock.
MaxTime == 2
\* Most calls of get_cached_response in one run of the cache.
MaxRequests == 2
\* Most calls of cache_response in one run of the cache.
MaxStores == 3
\* Most failures of the environment (the cache directory, a module, the
\* generative call, the bookkeeping) in one run.
MaxFaults == 1
\* Most queries submitted to the pipeline in one run.
MaxQueries == 2
\* Most calls of record_feedback in one run of the feedback manager.
MaxFeedback == 6

\* ------------------------------------------------------- Python str helpers
\* The character at position i of s.
CharAt(s, i) == SubSeq(s, i, i)

\* The suffix of s starting at position i.
StrFrom(s, i) == SubSeq(s, i, Len(s))

\* Characters str.strip() and str.split() treat as whitespace.
Whitespace == {" ", "\t"}

\* str.lower() on one character.
UpperCase ==
    [A |-> "a", B |-> "b", C |-> "c", D |-> "d", E |-> "e", F |-> "f", G |-> "g",
     H |-> "h", I |-> "i", J |-> "j", K |-> "k", L |-> "l", M |-> "m", N |-> "n",
     O |-> "o", P |-> "p", Q |-> "q", R |-> "r", S |-> "s", T |-> "t", U |-> "u",
     V |-> "v", W |-> "w", X |-> "x", Y |-> "y", Z |-> "z"]

LowerChar(c) == IF c \in DOMAIN UpperCase THEN UpperCase[c] ELSE c

\* str.lower()
RECURSIVE lower(_)
lower(s) ==
    IF s = "" THEN "" ELSE LowerChar(CharAt(s, 1)) \o lower(StrFrom(s, 2))

\* str.lstrip() / str.rstrip() / str.strip()
RECURSIVE lstrip(_)
lstrip(s) ==
    IF s = "" THEN ""
    ELSE IF CharAt(s, 1) \in Whitespace THEN lstrip(StrFrom(s, 2)) ELSE s

RECURSIVE rstrip(_)
rstrip(s) ==
    IF s = "" THEN ""
    ELSE IF CharAt(s, Len(s)) \in Whitespace
         THEN rstrip(SubSeq(s, 1, Len(s) - 1)) ELSE s

strip(s) == rstrip(lstrip(s))

\* ' '.join(s.split()): the whitespace-separated words of s, one space between
\* them.  The argument is scanned left to right; pending is TRUE when a word
\* has been copied and whitespace was seen after it.
RECURSIVE JoinSplitFrom(_, _, _)
JoinSplitFrom(s, started, pending) ==
    IF s = "" THEN ""
    ELSE IF CharAt(s, 1) \in Whitespace
         THEN JoinSplitFrom(StrFrom(s, 2), started, started)
         ELSE (IF pending THEN " " ELSE "") \o CharAt(s, 1)
              \o JoinSplitFrom(StrFrom(s, 2), TRUE, FALSE)

join_split(s) == JoinSplitFrom(s, FALSE, FALSE)

\* str.replace(old, new): leftmost, non-overlapping occurrences, old # "".
RECURSIVE replace(_, _, _)
replace(s, old, new) ==
    IF Len(s) < Len(old) THEN s
    ELSE IF SubSeq(s, 1, Len(old)) = old
         THEN new \o replace(StrFrom(s, Len(old) + 1), old, new)
         ELSE CharAt(s, 1) \o replace(StrFrom(s, 2), old, new)

\* sub in s
RECURSIVE contains(_, _)
contains(s, sub) ==
    IF Len(s) < Len(sub) THEN FALSE
    ELSE SubSeq(s, 1, Len(sub)) = sub \/ contains(StrFrom(s, 2), sub)

\* --------------------------------------------------- CacheModule: the key
\* chars_to_remove of _normalize_query, in its order.
chars_to_remove == <<".", ",", "!", "?", ";", ":">>

\* area_variations of _normalize_query, in dict order.
area_variations ==
    << <<"t nagar", "t. nagar">>,
       <<"tnagar", "t. nagar">>,
       <<"anna nagar", "anna nagar">>,
       <<"annanagar", "anna nagar">>,
       <<"adyar", "adyar">>,
       <<"velachery", "velachery">> >>

\* for char in chars_to_remove: normalized = normalized.replace(char, "")
RECURSIVE RemoveChars(_, _)
RemoveChars(s, i) ==
    IF i > Len(chars_to_remove) THEN s
    ELSE RemoveChars(replace(s, chars_to_remove[i], ""), i + 1)

\* for variation, standard in area_variations.items(): replace
RECURSIVE ApplyVariations(_, _)
ApplyVariations(s, i) ==
    IF i > Len(area_variations) THEN s
    ELSE ApplyVariations(replace(s, area_variations[i][1], area_variations[i][2]),
                         i + 1)

\* CacheModule._normalize_query
_normalize_query(query) ==
    ApplyVariations(RemoveChars(join_split(strip(lower(query))), 1), 1)

\* Queries given to the cache: two spellings of one area, which share a key,
\* and two more keys.
CacheQueries == {"tnagar", "T Nagar!", "bus", "xy"}

\* Queries submitted to the pipeline.
PipelineQueries == {"Water supply issue in Adyar", "Bus route complaint", ""}

Queries == CacheQueries \cup PipelineQueries

\* The MD5 digest of _generate_cache_key is taken to be injective: the key is
\* the prefix followed by the normalized query itself.
KeyTable == [q \in Queries |-> "civic_query_" \o _normalize_query(q)]

\* CacheModule._generate_cache_key (the keys of the queries in use are
\* computed once).
_generate_cache_key(query) ==
    IF query \in Queries THEN KeyTable[query]
    ELSE "civic_query_" \o _normalize_query(query)

\* ------------------------------------------------------------ Python dict
\* A dict is the sequence of its entries [k, v] in insertion order.
DictHas(d, k) == \E i \in 1..Len(d) : d[i].k = k

DictGet(d, k) == d[CHOOSE i \in 1..Len(d) : d[i].k = k].v

\* d[k] = v: an existing key keeps its place, a new key goes last.
DictSet(d, k, v) ==
    IF DictHas(d, k)
    THEN [i \in 1..Len(d) |-> IF d[i].k = k THEN [k |-> k, v |-> v] ELSE d[i]]
    ELSE Append(d, [k |-> k, v |-> v])

\* del d[k]
DictDel(d, k) == SelectSeq(d, LAMBDA e : e.k # k)

DictKeys(d) == {d[i].k : i \in 1..Len(d)}

\* ------------------------------------------------------ the cache directory
\* The directory maps the stem of each <key>.json file to its content and
\* modification time.
FilePut(fs, k, f) == [x \in (DOMAIN fs) \cup {k} |-> IF x = k THEN f ELSE fs[x]]

\* cache_file.unlink()
FileDel(fs, k) == [x \in (DOMAIN fs) \ {k} |-> fs[x]]

\* ------------------------------------------------------------ CacheModule
\* ttl_hours, the default of CacheModule.__init__ (24), scaled to ticks.
ttl_hours == 2

\* max_memory_items of optimize_cache (1000), scaled down.
max_memory_items == 2

\* max_persistent_files of optimize_cache (5000), scaled down.
max_persistent_files == 3

\* datetime.isoformat() and datetime.fromisoformat(): the text of an instant.
isoformat(t) == [fmt |-> "iso", t |-> t]

\* _is_cache_valid: datetime.now() < cached_time + ttl; an item without a
\* timestamp, or with one that does not parse, is invalid.
_is_cache_valid(cached_item, t) ==
    IF "timestamp" \notin DOMAIN cached_item THEN FALSE
    ELSE IF cached_item.timestamp.fmt # "iso" THEN FALSE
    ELSE t < cached_item.timestamp.t + ttl_hours

\* What get_cached_response returns: None, or the response text of the item
\* (cached_item["response"], a str).
PyNone == [tag |-> "None"]
PyStr(text) == [tag |-> "str", val |-> text]

NoItem == [tag |-> "none"]

\* The outcome of a call: the cache after it, the value returned, the item
\* served and the exception in flight ("none": the call returns).
Hit(C, mc, fs, item) ==
    [memory_cache |-> mc, files |-> fs,
     cache_stats |-> [C.cache_stats EXCEPT !.total_requests = @ + 1,
                                           !.hits = @ + 1],
     ret |-> PyStr(item.response), served |-> item, exc |-> "none"]

Miss(C, mc, fs) ==
    [memory_cache |-> mc, files |-> fs,
     cache_stats |-> [C.cache_stats EXCEPT !.total_requests = @ + 1,
                                           !.misses = @ + 1],
     ret |-> PyNone, served |-> NoItem, exc |-> "none"]

\* An exception leaves the try block of get_cached_response; hit: after
\* cache_stats["hits"] += 1.
Raised(C, mc, fs, hit, exc) ==
    [memory_cache |-> mc, files |-> fs,
     cache_stats |-> [C.cache_stats EXCEPT !.total_requests = @ + 1,
                                           !.hits = @ + (IF hit THEN 1 ELSE 0)],
     ret |-> PyNone, served |-> NoItem, exc |-> exc]

\* A plausible slip: the outer handler catches OSError only.
except_OSError(B) ==
    IF B.exc = "OSError"
    THEN [B EXCEPT !.cache_stats.misses = @ + 1, !.exc = "none"]
    ELSE B

\* The outer handler of get_cached_response, "except Exception": the call
\* counts a miss and returns None.
except_Exception(B) ==
    IF B.exc # "none"
    THEN [B EXCEPT !.cache_stats.misses = @ + 1, !.exc = "none"]
    ELSE B

\* A plausible slip: the expired file is left in the directory.
ExpiredFileKept(C, mc, key) == Miss(C, mc, C.files)

\* The expired-file branch of get_cached_response: cache_file.unlink().
ExpiredFile(C, mc, key) == Miss(C, mc, FileDel(C.files, key))

\* The valid-file branch: the item is loaded back to the memory cache.
ValidFile(C, mc, key, item) == Hit(C, DictSet(mc, key, item), C.files, item)

\* The inner handler, "except (json.JSONDecodeError, KeyError)": the file is
\* unlinked and the call goes on to count a miss; hit: after a hit was counted.
CorruptedFile(C, mc, key, hit) ==
    [Miss(C, mc, FileDel(C.files, key))
        EXCEPT !.cache_stats.hits = @ + (IF hit THEN 1 ELSE 0)]

\* The try block of get_cached_response on a file f that open() opened.
\* kind "json": a JSON object, f.item; "partial": text json.load rejects
\* (JSONDecodeError); "nonobject": JSON that is no object, on which
\* cached_item.get raises AttributeError.  io = "unlink_error": unlink()
\* raises OSError.
ReadFile(C, mc, cache_key, f, t, io) ==
    CASE f.kind = "nonobject" -> Raised(C, mc, C.files, FALSE, "AttributeError")
      [] f.kind = "partial" ->
            IF io = "unlink_error" THEN Raised(C, mc, C.files, FALSE, "OSError")
            ELSE CorruptedFile(C, mc, cache_key, FALSE)
      [] f.kind = "json" ->
            IF ~_is_cache_valid(f.item, t)
            THEN IF io = "unlink_error" THEN Raised(C, mc, C.files, FALSE, "OSError")
                 ELSE ExpiredFile(C, mc, cache_key)
            ELSE IF "response" \in DOMAIN f.item
            THEN ValidFile(C, mc, cache_key, f.item)
            ELSE IF io = "unlink_error"
            THEN Raised(C, DictSet(mc, cache_key, f.item), C.files, TRUE, "OSError")
            ELSE CorruptedFile(C, DictSet(mc, cache_key, f.item), cache_key, TRUE)

\* CacheModule.get_cached_response on the cache C = [memory_cache, files,
\* cache_stats] at time t.  io = "open_error": open() raises OSError.
get_cached_response(C, query, t, io) ==
    LET cache_key == _generate_cache_key(query)
        inMemory  == DictHas(C.memory_cache, cache_key)
        memValid  == inMemory
                     /\ _is_cache_valid(DictGet(C.memory_cache, cache_key), t)
        mc        == IF inMemory /\ ~memValid
                     THEN DictDel(C.memory_cache, cache_key)
                     ELSE C.memory_cache
    IN  except_Exception(
          IF memValid
          THEN IF "response" \in DOMAIN DictGet(C.memory_cache, cache_key)
               THEN Hit(C, C.memory_cache, C.files, DictGet(C.memory_cache, cache_key))
               ELSE Raised(C, C.memory_cache, C.files, TRUE, "KeyError")
          ELSE IF cache_key \notin DOMAIN C.files THEN Miss(C, mc, C.files)
          ELSE IF io = "open_error" THEN Raised(C, mc, C.files, FALSE, "OSError")
          ELSE ReadFile(C, mc, cache_key, C.files[cache_key], t, io))

\* CacheModule._store_persistent_cache.  io = "open_error": open() raises and
\* the file is as before; io = "write_error": the file was truncated by
\* open(.., 'w') and json.dump raised before completing.
_store_persistent_cache(fs, cache_key, cached_item, t, io) ==
    CASE io = "ok"          -> FilePut(fs, cache_key,
                                 [kind |-> "json", item |-> cached_item, mtime |-> t])
      [] io = "open_error"  -> fs
      [] io = "write_error" -> FilePut(fs, cache_key,
                                 [kind |-> "partial", item |-> NoItem, mtime |-> t])

\* The item cache_response builds.
NewItem(query, response, department, sources, t) ==
    [query |-> query, response |-> response, department |-> department,
     sources |-> sources, timestamp |-> isoformat(t),
     cache_key |-> _generate_cache_key(query)]

\* CacheModule.cache_response
cache_response(C, query, response, department, sources, t, io) ==
    LET cache_key   == _generate_cache_key(query)
        cached_item == NewItem(query, response, department, sources, t)
    IN  [memory_cache |-> DictSet(C.memory_cache, cache_key, cached_item),
         files |-> _store_persistent_cache(C.files, cache_key, cached_item, t, io),
         cache_stats |-> C.cache_stats]

\* The sort key of optimize_cache: x[1].get("timestamp", ""), an ISO text,
\* compared as text; ISO texts order as their instants do.
SortKey(e) == IF e.v.timestamp.fmt = "iso" THEN e.v.timestamp.t ELSE -1

\* One step of a stable descending sort: e goes after every entry whose key
\* is at least its own.
InsertDesc(sorted, e) ==
    LET n == Cardinality({i \in 1..Len(sorted) : SortKey(sorted[i]) >= SortKey(e)})
    IN  SubSeq(sorted, 1, n) \o <<e>> \o SubSeq(sorted, n + 1, Len(sorted))

\* sorted(memory_cache.items(), key=timestamp, reverse=True): stable, so
\* entries with equal timestamps keep their dict order.
RECURSIVE sorted_items(_)
sorted_items(d) ==
    IF d = <<>> THEN <<>>
    ELSE InsertDesc(sorted_items(SubSeq(d, 1, Len(d) - 1)), d[Len(d)])

\* optimize_cache, the memory part.
optimize_memory(mc) ==
    IF Len(mc) > max_memory_items
    THEN SubSeq(sorted_items(mc), 1, max_memory_items)
    ELSE mc

\* A plausible slip: the files are trimmed to the bound of the memory cache.
files_to_remove_memory_bound(fs) ==
    IF Cardinality(DOMAIN fs) > max_memory_items
    THEN {R \in SUBSET (DOMAIN fs) :
            /\ Cardinality(R) = Cardinality(DOMAIN fs) - max_memory_items
            /\ \A r \in R : \A k \in (DOMAIN fs) \ R : fs[r].mtime <= fs[k].mtime}
    ELSE {{}}

\* optimize_cache, the persistent part: the sets of files it may remove.  The
\* files are sorted by st_mtime starting from the directory's own order, so
\* files of equal st_mtime may go in any order.
files_to_remove(fs) ==
    IF Cardinality(DOMAIN fs) > max_persistent_files
    THEN {R \in SUBSET (DOMAIN fs) :
            /\ Cardinality(R) = Cardinality(DOMAIN fs) - max_persistent_files
            /\ \A r \in R : \A k \in (DOMAIN fs) \ R : fs[r].mtime <= fs[k].mtime}
    ELSE {{}}

\* ------------------------------------------------- CivicMindAI: the data
\* dict.get(key, default) on a record.
Get(d, key, default) == IF key \in DOMAIN d THEN d[key] ELSE default

\* An empty dict.
EmptyDict == <<>>

\* get_fallback_civic_data()["departments_complete"]: the data load_civic_data
\* substitutes when the JSON documents are not found.
departments_complete ==
    [Greater_Chennai_Corporation |->
        [main_contact |-> "1913",
         services |-> <<"Garbage collection", "Road maintenance", "Building approvals">>],
     Chennai_Metro_Water |->
        [main_contact |-> "044-4567-4567",
         services |-> <<"Water supply", "Sewerage", "New connections">>],
     TANGEDCO |->
        [main_contact |-> "94987-94987",
         services |-> <<"Electricity supply", "Power failures", "Billing">>],
     TNSTC |->
        [main_contact |-> "1800-599-1500",
         services |-> <<"Bus transport", "Route complaints">>]]

\* get_fallback_pincode_data(), in dict order.
pincode_mapping ==
    << <<"600001", "Parrys Corner">>, <<"600004", "Mylapore">>,
       <<"600020", "Adyar">>, <<"600017", "T. Nagar">>,
       <<"600040", "Anna Nagar">> >>

\* chennai_complete_data["zones_complete"] of script.py, in dict order: the
\* zones' keys and their wards (the ward names, the constituencies and the
\* other fields of a zone are not modelled).
zones_complete ==
    << [zone_name |-> "Zone_1_Thiruvottiyur", wards |-> [i \in 1..14 |-> i + 0]],
       [zone_name |-> "Zone_2_Manali", wards |-> [i \in 1..7 |-> i + 14]],
       [zone_name |-> "Zone_3_Madhavaram", wards |-> [i \in 1..12 |-> i + 21]],
       [zone_name |-> "Zone_4_Tondiarpet", wards |-> [i \in 1..15 |-> i + 33]],
       [zone_name |-> "Zone_5_Royapuram", wards |-> [i \in 1..15 |-> i + 48]],
       [zone_name |-> "Zone_6_Thiru_Vi_Ka_Nagar", wards |-> [i \in 1..15 |-> i + 63]],
       [zone_name |-> "Zone_7_Ambattur", wards |-> [i \in 1..15 |-> i + 78]],
       [zone_name |-> "Zone_8_Anna_Nagar", wards |-> [i \in 1..15 |-> i + 93]],
       [zone_name |-> "Zone_9_Teynampet", wards |-> [i \in 1..18 |-> i + 108]],
       [zone_name |-> "Zone_10_Kodambakkam", wards |-> [i \in 1..16 |-> i + 126]],
       [zone_name |-> "Zone_11_Valasaravakkam", wards |-> [i \in 1..13 |-> i + 142]],
       [zone_name |-> "Zone_12_Alandur", wards |-> [i \in 1..12 |-> i + 155]],
       [zone_name |-> "Zone_13_Adyar", wards |-> [i \in 1..13 |-> i + 169]],
       [zone_name |-> "Zone_14_Perungudi", wards |-> <<168, 169>> \o [i \in 1..9 |-> i + 182]],
       [zone_name |-> "Zone_15_Sholinganallur", wards |-> [i \in 1..9 |-> i + 191]] >>

\* pincode_mapping of script.py, in dict order: what load_civic_data reads
\* from chennai_pincode_mapping.json.
complete_pincode_mapping ==
    << <<"600001", "Parrys Corner, Fort">>, <<"600002", "Anna Road, Mount Road">>, <<"600003", "Park Town">>,
       <<"600004", "Mylapore">>, <<"600005", "Chepauk">>, <<"600006", "Greams Road">>,
       <<"600008", "Egmore">>, <<"600009", "Fort St. George">>, <<"600010", "Kilpauk">>,
       <<"600011", "Perambur">>, <<"600012", "Perambur Barracks">>, <<"600013", "Royapuram">>,
       <<"600014", "Royapettah">>, <<"600015", "Saidapet">>, <<"600016", "Alwarpet">>,
       <<"600017", "T. Nagar">>, <<"600018", "Kodambakkam">>, <<"600020", "Adyar">>,
       <<"600022", "Raj Bhavan">>, <<"600023", "Ayanavaram">>, <<"600024", "Kodambakkam">>,
       <<"600025", "Engineering College">>, <<"600026", "Nungambakkam">>, <<"600027", "Meenambakkam">>,
       <<"600028", "R.A. Puram">>, <<"600029", "Aminjikarai">>, <<"600030", "Shenoy Nagar">>,
       <<"600031", "Chetpet">>, <<"600032", "Guindy">>, <<"600033", "Gopalapuram">>,
       <<"600034", "Nungambakkam">>, <<"600035", "Nandanam">>, <<"600036", "IIT Madras">>,
       <<"600038", "ICF Colony">>, <<"600040", "Anna Nagar">>, <<"600043", "Pallavaram">>,
       <<"600044", "Chrompet">>, <<"600050", "Padi">>, <<"600051", "Madhavaram Milk Colony">>,
       <<"600052", "Red Hills">>, <<"600053", "Ambattur">>, <<"600054", "Avadi">>,
       <<"600055", "Avadi I.A.F.">>, <<"600056", "Poonamallee">>, <<"600057", "Ennore">>,
       <<"600058", "Ambattur Industrial Estate">>, <<"600060", "Madhavaram">>, <<"600061", "Nanganallur">>,
       <<"600062", "Sathyamurthy Nagar">>, <<"600063", "Perungalathur">>, <<"600064", "Chitlapakkam">>,
       <<"600065", "CRP Camp Avadi">>, <<"600066", "Puzhal">>, <<"600068", "Manali">>,
       <<"600069", "Kundrathur">>, <<"600070", "Anakaputhur">>, <<"600071", "Kamaraj Nagar">>,
       <<"600072", "Pattabiram">>, <<"600073", "Selaiyur">>, <<"600074", "Pozhichalur">>,
       <<"600078", "K.K. Nagar">>, <<"600079", "Sowcarpet">>, <<"600080", "Korattur">>,
       <<"600082", "Kanchipuram Road">>, <<"600083", "Ashok Nagar">>, <<"600084", "Flowers Road">>,
       <<"600085", "Kottur">>, <<"600086", "Gopalapuram">>, <<"600087", "Alwarthirunagar">>,
       <<"600088", "Adambakkam">>, <<"600090", "Besant Nagar">>, <<"600091", "Madipakkam">>,
       <<"600093", "Saligramam">>, <<"600094", "Choolaimedu">>, <<"600096", "Perungudi">>,
       <<"600097", "Ekkaduthangal">>, <<"600099", "Kolathur">>, <<"600101", "Anna Nagar West Extension">>,
       <<"600102", "Anna Nagar East">>, <<"600103", "Manali New Town">>, <<"600106", "Arumbakkam">>,
       <<"600107", "Koyambedu">>, <<"600108", "Broadway">>, <<"600116", "Porur">>,
       <<"600117", "Old Pallavaram">>, <<"600118", "Kodungaiyur">> >>

\* self.civic_data and self.pincode_mapping after load_civic_data: when the two
\* JSON documents script.py writes are present, and when they are missing.
CompleteData == [zones_complete |-> zones_complete,
                 pincode_mapping |-> complete_pincode_mapping]
FallbackData == [zones_complete |-> <<>>, pincode_mapping |-> pincode_mapping]

\* common_areas of identify_area_from_query.
common_areas ==
    <<"adyar", "t nagar", "anna nagar", "velachery", "mylapore",
      "kodambakkam", "nungambakkam", "guindy", "chrompet", "tambaram",
      "perambur", "royapuram", "egmore", "kilpauk", "saidapet">>

\* issue_keywords of identify_issue_type, in dict order.
issue_keywords ==
    << <<"water_supply", <<"water", "supply", "shortage", "leak", "pipe",
                           "connection", "pressure">> >>,
       <<"electricity", <<"power", "electricity", "outage", "billing", "meter",
                          "connection">> >>,
       <<"garbage_collection", <<"garbage", "waste", "collection", "bin",
                                 "sweeping", "cleaning">> >>,
       <<"roads", <<"road", "pothole", "street", "repair", "maintenance">> >>,
       <<"transport", <<"bus", "transport", "route", "fare", "conductor",
                        "driver">> >> >>

\* --------------------------------------------- CivicMindAI: classification
\* str.title(): the first letter of every word in upper case, the others in
\* lower case.
UpperChar(c) ==
    IF \E u \in DOMAIN UpperCase : UpperCase[u] = c
    THEN CHOOSE u \in DOMAIN UpperCase : UpperCase[u] = c
    ELSE c

IsLetter(c) == c \in DOMAIN UpperCase \/ \E u \in DOMAIN UpperCase : UpperCase[u] = c

RECURSIVE TitleFrom(_, _)
TitleFrom(s, inWord) ==
    IF s = "" THEN ""
    ELSE LET c == CharAt(s, 1)
         IN  (IF inWord THEN LowerChar(c) ELSE UpperChar(c))
             \o TitleFrom(StrFrom(s, 2), IsLetter(c))

title(s) == TitleFrom(s, FALSE)

\* The first pincode entry whose digits occur in the query or whose area
\* name occurs in the lowercased query; 0 when there is none.
FirstPincode(mapping, query) ==
    LET hits == {i \in 1..Len(mapping) :
                    \/ contains(query, mapping[i][1])
                    \/ contains(lower(query), lower(mapping[i][2]))}
    IN  IF hits = {} THEN 0 ELSE CHOOSE i \in hits : \A j \in hits : i <= j

\* zone_display = zone_name.replace("_", " ").replace("Zone ", "")
zone_display(zone_name) == replace(replace(zone_name, "_", " "), "Zone ", "")

\* The name of a zone, from its key "Zone_<number>_<name>" in zones_complete.
RECURSIVE AfterDigits(_)
AfterDigits(s) ==
    IF s # "" /\ CharAt(s, 1) \in {"0", "1", "2", "3", "4", "5", "6", "7", "8", "9", " "}
    THEN AfterDigits(StrFrom(s, 2)) ELSE s

ZoneName(zone_name) == AfterDigits(zone_display(zone_name))

\* The first zone whose display name occurs in the lowercased query; 0 when
\* there is none.
FirstZone(zones, query) ==
    LET hits == {i \in 1..Len(zones) :
                    contains(lower(query), lower(zone_display(zones[i].zone_name)))}
    IN  IF hits = {} THEN 0 ELSE CHOOSE i \in hits : \A j \in hits : i <= j

FirstCommonArea(query) ==
    LET hits == {i \in 1..Len(common_areas) : contains(lower(query), common_areas[i])}
    IN  IF hits = {} THEN 0 ELSE CHOOSE i \in hits : \A j \in hits : i <= j

\* CivicMindAI.identify_area_from_query on the data load_civic_data loaded.
\* (The substituted civic data holds no "zones_complete": the zone loop runs
\* over nothing.)
identify_area_from_query(data, query) ==
    IF FirstZone(data.zones_complete, query) # 0
    THEN LET zone == data.zones_complete[FirstZone(data.zones_complete, query)]
         IN  [type |-> "zone", name |-> zone_display(zone.zone_name),
              zone_number |-> zone.zone_name, wards |-> zone.wards]
    ELSE IF FirstPincode(data.pincode_mapping, query) # 0
    THEN [type |-> "pincode_area",
          name |-> data.pincode_mapping[FirstPincode(data.pincode_mapping, query)][2],
          pincode |-> data.pincode_mapping[FirstPincode(data.pincode_mapping, query)][1]]
    ELSE IF FirstCommonArea(query) # 0
    THEN [type |-> "area", name |-> title(common_areas[FirstCommonArea(query)])]
    ELSE [type |-> "general", name |-> "Chennai"]

\* A plausible slip: the last category of the table with a keyword in the
\* query.
identify_issue_type_last(query) ==
    LET hits == {i \in 1..Len(issue_keywords) :
                    \E j \in 1..Len(issue_keywords[i][2]) :
                        contains(lower(query), issue_keywords[i][2][j])}
    IN  IF hits = {} THEN "general"
        ELSE issue_keywords[CHOOSE i \in hits : \A j \in hits : i >= j][1]

\* CivicMindAI.identify_issue_type
identify_issue_type(query) ==
    LET hits == {i \in 1..Len(issue_keywords) :
                    \E j \in 1..Len(issue_keywords[i][2]) :
                        contains(lower(query), issue_keywords[i][2][j])}
    IN  IF hits = {} THEN "general"
        ELSE issue_keywords[CHOOSE i \in hits : \A j \in hits : i <= j][1]

\* The classification of the queries in use, computed once.
AreaTable == [q \in PipelineQueries |-> identify_area_from_query(FallbackData, q)]
IssueTable == [q \in PipelineQueries |-> identify_issue_type(q)]

\* ------------------------------------------------ CivicMindAI: retrieval
\* A plausible slip: department_mapping without its "transport" entry.
_get_department_info_no_transport(issue_type) ==
    LET department_mapping ==
            [water_supply |-> "Chennai_Metro_Water", electricity |-> "TANGEDCO",
             garbage_collection |-> "Greater_Chennai_Corporation",
             roads |-> "Greater_Chennai_Corporation"]
        dept_key  == Get(department_mapping, issue_type, "Greater_Chennai_Corporation")
        dept_data == Get(departments_complete, dept_key, EmptyDict)
    IN  [name |-> replace(dept_key, "_", " "),
         contact |-> Get(dept_data, "main_contact", "1913"),
         services |-> Get(dept_data, "services", <<>>)]

\* RAGModule._get_department_info
_get_department_info(issue_type) ==
    LET department_mapping ==
            [water_supply |-> "Chennai_Metro_Water", electricity |-> "TANGEDCO",
             garbage_collection |-> "Greater_Chennai_Corporation",
             roads |-> "Greater_Chennai_Corporation", transport |-> "TNSTC"]
        dept_key  == Get(department_mapping, issue_type, "Greater_Chennai_Corporation")
        dept_data == Get(departments_complete, dept_key, EmptyDict)
    IN  [name |-> replace(dept_key, "_", " "),
         contact |-> Get(dept_data, "main_contact", "1913"),
         services |-> Get(dept_data, "services", <<>>)]

\* RAGModule._get_sources
_get_sources(issue_type) ==
    <<"Live data from Chennai civic portals", "Official department websites",
      "Government notification systems">>

\* RAGModule._get_fallback_info (live_data, relevant_documents and
\* area_specific, which the pipeline never reads, are left out).
_get_fallback_info(issue_type) ==
    LET fallback_info ==
            [water_supply |->
                [department |-> "Chennai Metro Water", contact |-> "044-4567-4567",
                 services |-> <<"Water supply", "Sewerage", "New connections">>],
             electricity |->
                [department |-> "TANGEDCO", contact |-> "94987-94987",
                 services |-> <<"Power supply", "Billing", "Complaints">>],
             garbage_collection |->
                [department |-> "Greater Chennai Corporation", contact |-> "1913",
                 services |-> <<"Waste collection", "Street cleaning">>]]
        info == Get(fallback_info, issue_type, fallback_info["garbage_collection"])
    IN  [department |-> info.department, contact |-> info.contact,
         services |-> info.services,
         sources |-> <<"Fallback civic information">>]

\* RAGModule.retrieve_information.  outcome = "raises": an exception is
\* raised inside the try block (for one, "departments_complete" of the civic
\* document read from disk is no object).
retrieve_information(query, area_info, issue_type, outcome) ==
    IF outcome = "raises" THEN _get_fallback_info(issue_type)
    ELSE LET department_info == _get_department_info(issue_type)
         IN  [department |-> department_info.name,
              contact |-> department_info.contact,
              services |-> department_info.services,
              sources |-> _get_sources(issue_type)]

\* CivicMindAI.get_fallback_civic_info
get_fallback_civic_info(area_info, issue_type) ==
    CASE issue_type = "water_supply" ->
            [department |-> "Chennai Metro Water",
             contact |-> Get(Get(departments_complete, "Chennai_Metro_Water", EmptyDict),
                             "main_contact", "044-4567-4567"),
             services |-> Get(Get(departments_complete, "Chennai_Metro_Water", EmptyDict),
                              "services", <<>>),
             sources |-> <<"Chennai Metro Water Official Data">>]
      [] issue_type = "electricity" ->
            [department |-> "TANGEDCO",
             contact |-> Get(Get(departments_complete, "TANGEDCO", EmptyDict),
                             "main_contact", "94987-94987"),
             services |-> Get(Get(departments_complete, "TANGEDCO", EmptyDict),
                              "services", <<>>),
             sources |-> <<"TANGEDCO Official Data">>]
      [] issue_type = "garbage_collection" ->
            [department |-> "Greater Chennai Corporation",
             contact |-> Get(Get(departments_complete, "Greater_Chennai_Corporation",
                                 EmptyDict), "main_contact", "1913"),
             services |-> Get(Get(departments_complete, "Greater_Chennai_Corporation",
                                  EmptyDict), "services", <<>>),
             sources |-> <<"GCC Official Data">>]
      [] issue_type = "transport" ->
            [department |-> "TNSTC",
             contact |-> Get(Get(departments_complete, "TNSTC", EmptyDict),
                             "main_contact", "1800-599-1500"),
             services |-> Get(Get(departments_complete, "TNSTC", EmptyDict),
                              "services", <<>>),
             sources |-> <<"TNSTC Official Data">>]
      [] OTHER ->
            [department |-> "Greater Chennai Corporation", contact |-> "1913",
             services |-> <<"General civic services">>,
             sources |-> <<"General civic information">>]

\* CivicMindAI.retrieve_civic_information: rag_module is None after
\* setup_basic_modules.
retrieve_civic_information(modules, query, area_info, issue_type, outcome) ==
    IF modules = "full"
    THEN retrieve_information(query, area_info, issue_type, outcome)
    ELSE get_fallback_civic_info(area_info, issue_type)

\* ------------------------------------------- KnowledgeGraphModule: graph
\* escalation_chains of _add_relationships, in dict order.
escalation_chains ==
    << <<"Chennai Metro Water",
         <<"Area Engineer", "Executive Engineer", "Superintending Engineer",
           "Chief Engineer">> >>,
       <<"TANGEDCO",
         <<"Section Officer", "Sub Divisional Officer", "Divisional Officer",
           "Superintending Engineer">> >>,
       <<"Greater Chennai Corporation",
         <<"Zone Officer", "Assistant Commissioner", "Deputy Commissioner",
           "Commissioner">> >> >>

\* The department nodes _add_department_entities adds to the graph.
DepartmentNodes == {replace(k, "_", " ") : k \in DOMAIN departments_complete}

\* The position nodes of one chain: node name, department and level.
PositionNodes(dept, chain) ==
    IF dept \in DepartmentNodes
    THEN [i \in 1..Len(chain) |->
            [node |-> replace(dept \o "_" \o chain[i], " ", "_"),
             department |-> dept, level |-> i]]
    ELSE <<>>

\* The position nodes _add_relationships adds, in the order graph.nodes()
\* yields them (the order of insertion).
RECURSIVE PositionsFrom(_)
PositionsFrom(i) ==
    IF i > Len(escalation_chains) THEN <<>>
    ELSE PositionNodes(escalation_chains[i][1], escalation_chains[i][2])
         \o PositionsFrom(i + 1)

position_nodes == PositionsFrom(1)

\* list.sort(key=level): a stable sort by level.
RECURSIVE InsertByLevel(_, _)
InsertByLevel(sorted, n) ==
    IF sorted = <<>> THEN <<n>>
    ELSE IF Head(sorted).level <= n.level
         THEN <<Head(sorted)>> \o InsertByLevel(Tail(sorted), n)
         ELSE <<n>> \o sorted

RECURSIVE SortByLevel(_)
SortByLevel(nodes) ==
    IF nodes = <<>> THEN <<>>
    ELSE InsertByLevel(SortByLevel(SubSeq(nodes, 1, Len(nodes) - 1)), nodes[Len(nodes)])

\* s.split(sep)[-1]: what follows the last occurrence of sep (one character).
LastField(s, sep) ==
    LET at == {i \in 1..Len(s) : CharAt(s, i) = sep}
    IN  IF at = {} THEN s
        ELSE StrFrom(s, (CHOOSE i \in at : \A j \in at : j <= i) + 1)

\* KnowledgeGraphModule._get_escalation_path
_get_escalation_path(issue_type) ==
    LET dept_mapping ==
            [water_supply |-> "Chennai Metro Water", electricity |-> "TANGEDCO",
             garbage_collection |-> "Greater Chennai Corporation",
             roads |-> "Greater Chennai Corporation", transport |-> "TNSTC"]
        dept == Get(dept_mapping, issue_type, "Greater Chennai Corporation")
        IsOfDept(n) == n.department = dept
        escalation_nodes == SortByLevel(SelectSeq(position_nodes, IsOfDept))
    IN  [i \in 1..Len(escalation_nodes) |->
            replace(LastField(escalation_nodes[i].node, "_"), "_", " ")]

\* KnowledgeGraphModule._generate_recommendations
_generate_recommendations(area_info, issue_type) ==
    LET issue_recommendations ==
            [water_supply |->
                <<"Contact Chennai Metro Water at 044-4567-4567",
                  "Check if area has scheduled maintenance",
                  "Request tanker service if emergency",
                  "Escalate to Superintending Engineer if no response">>,
             electricity |->
                <<"Call TANGEDCO at 94987-94987 for power failures",
                  "Report via WhatsApp at 94458508111 with photo",
                  "Check estimated restoration time",
                  "Claim compensation for delays over 1 hour">>,
             garbage_collection |->
                <<"Contact GCC at 1913 or use Namma Chennai app",
                  "Ensure waste segregation at source",
                  "Note down complaint number",
                  "Follow up with zone office if needed">>]
        basic == Get(issue_recommendations, issue_type,
                     <<"Contact relevant department for assistance",
                       "Provide exact location and issue description",
                       "Keep complaint number for tracking">>)
        area_name == Get(area_info, "name", "")
        recommendations ==
            basic
            \o (IF area_name # ""
                THEN <<"Mention " \o area_name \o " location clearly when reporting">>
                     \o (IF Get(area_info, "type", "") = "zone"
                         THEN <<"Contact zone office for faster resolution">>
                         ELSE <<>>)
                ELSE <<>>)
    IN  SubSeq(recommendations, 1,
               IF Len(recommendations) < 6 THEN Len(recommendations) ELSE 6)

\* KnowledgeGraphModule._get_fallback_reasoning (escalation_path and
\* recommendations; the other entries are not read by any claim).
_get_fallback_reasoning(area_info, issue_type) ==
    [escalation_path |-> <<"Junior Officer", "Senior Officer", "Department Head">>,
     recommendations |->
        <<"Contact appropriate department for " \o issue_type \o " issues",
          "Provide detailed location information",
          "Keep complaint reference number",
          "Follow up if no response within expected timeframe">>]

\* KnowledgeGraphModule.reason_over_graph (escalation_path and
\* recommendations).  outcome = "raises": an exception is raised inside the
\* try block.
reason_over_graph(query, area_info, issue_type, outcome) ==
    IF outcome = "raises" THEN _get_fallback_reasoning(area_info, issue_type)
    ELSE [escalation_path |-> _get_escalation_path(issue_type),
          recommendations |-> _generate_recommendations(area_info, issue_type)]

\* CivicMindAI.apply_knowledge_graph_reasoning: kag_module is None after
\* setup_basic_modules, and the method builds the result itself.
apply_knowledge_graph_reasoning(modules, query, area_info, issue_type, outcome) ==
    IF modules = "full"
    THEN reason_over_graph(query, area_info, issue_type, outcome)
    ELSE [relationships |-> <<>>,
          recommendations |->
             <<"Contact the relevant department for " \o issue_type \o " issues",
               "Provide your exact address in " \o Get(area_info, "name", "Chennai"),
               "Note down complaint number for tracking">>]

\* ---------------------------------------------- CivicMindAI: composition
\* CivicMindAI.generate_fallback_response: the template, as the sequence of
\* its fixed parts and of the values put in it.
generate_fallback_response(query, area_info, issue_type, civic_info) ==
    LET department == Get(civic_info, "department", "Relevant Department")
        contact    == Get(civic_info, "contact", "Contact Number")
        area_name  == Get(area_info, "name", "your area")
    IN  <<"For", replace(issue_type, "_", " "), "issues in", area_name,
          "please contact", department, "at", contact,
          "Immediate Steps:",
          "1. Call", contact, "to register your complaint",
          "2. Note down the complaint number for tracking",
          "3. Provide exact address and description of issue",
          "Expected Response Time: 24-48 hours for most issues",
          "Escalation: If no response within expected time, contact the zone office",
          "For emergency issues, call immediately">>

\* A plausible slip: the handler of generate_ai_response returns no text.
generate_ai_response_empty(query, civic_info, contextual_info, outcome) ==
    CASE outcome = "text"   -> <<"generated answer">>
      [] outcome = "blank"  -> <<>>
      [] outcome = "raises" -> <<>>

\* CivicMindAI.generate_ai_response.  outcome: what the generative call does:
\* "text", an answer; "blank", an answer that is empty once stripped;
\* "raises", any failure of the call.
generate_ai_response(query, civic_info, contextual_info, outcome) ==
    CASE outcome = "text"   -> <<"generated answer">>
      [] outcome = "blank"  -> <<>>
      [] outcome = "raises" -> generate_fallback_response(query, EmptyDict, "", civic_info)

\* Step 5 of process_civic_query.
compose(api_key, query, area_info, issue_type, civic_info, contextual_info, outcome) ==
    IF api_key
    THEN generate_ai_response(query, civic_info, contextual_info, outcome)
    ELSE generate_fallback_response(query, area_info, issue_type, civic_info)

\* ----------------------------------------------- FederatedLearningManager
\* maxlen of the deque feedback_data (500), scaled down; a multiple of
\* update_every, as 500 is of 10.
feedback_maxlen == 4

\* maxlen of the deque interactions (1000), scaled down.
interactions_maxlen == 2

\* feedback_window, the default of __init__ (100), scaled down.
feedback_window == 2

\* The modulus of the update trigger of record_feedback (10), scaled down.
update_every == 2

\* FederatedLearningManager.__init__.  A defaultdict is the dict of the keys
\* touched so far; positive_feedback_rate is kept as the fraction
\* positive / total (0.0 at first).
FederatedLearningManager ==
    [interactions |-> <<>>, feedback_data |-> <<>>,
     response_quality_scores |-> <<>>,
     department_performance |-> <<>>, issue_type_accuracy |-> <<>>,
     learning_metrics |-> [total_interactions |-> 0, total_feedback |-> 0,
                           positive_feedback_rate |-> [positive |-> 0, total |-> 1],
                           model_updates |-> 0, last_update |-> PyNone]]

\* FederatedLearningManager.record_interaction (department and area are the
\* defaults of the call of process_civic_query).
record_interaction(fl, query, issue_type, t) ==
    LET interaction == [timestamp |-> isoformat(t), query |-> query,
                        issue_type |-> issue_type, department |-> "Unknown",
                        area |-> "Unknown"]
        kept == IF Len(fl.interactions) = interactions_maxlen
                THEN Tail(fl.interactions) ELSE fl.interactions
    IN  [fl EXCEPT !.interactions = Append(kept, interaction),
                   !.learning_metrics.total_interactions = @ + 1]

\* FederatedLearningManager._update_model_parameters; the strategy
\* adjustment only writes to the log.
_update_model_parameters(fl, t) ==
    IF fl.feedback_data = <<>> THEN fl
    ELSE LET n == Len(fl.feedback_data)
             first == IF n > feedback_window THEN n - feedback_window + 1 ELSE 1
             recent_feedback == SubSeq(fl.feedback_data, first, n)
             positive_feedback ==
                 Cardinality({i \in 1..Len(recent_feedback) :
                                 recent_feedback[i].is_helpful})
         IN  [fl EXCEPT
                !.learning_metrics.positive_feedback_rate =
                    [positive |-> positive_feedback, total |-> Len(recent_feedback)],
                !.learning_metrics.model_updates = @ + 1,
                !.learning_metrics.last_update = isoformat(t)]

\* FederatedLearningManager.record_feedback
record_feedback(fl, query, is_helpful, issue_type, department, t) ==
    LET feedback == [timestamp |-> isoformat(t), query |-> query,
                     is_helpful |-> is_helpful, issue_type |-> issue_type,
                     department |-> department]
        kept == IF Len(fl.feedback_data) = feedback_maxlen
                THEN Tail(fl.feedback_data) ELSE fl.feedback_data
        Counted(d, k) ==
            LET old == IF DictHas(d, k) THEN DictGet(d, k)
                       ELSE [correct |-> 0, total |-> 0]
            IN  DictSet(d, k, [correct |-> old.correct + (IF is_helpful THEN 1 ELSE 0),
                               total |-> old.total + 1])
        scores == IF DictHas(fl.response_quality_scores, issue_type)
                  THEN DictGet(fl.response_quality_scores, issue_type) ELSE <<>>
        recorded ==
            [fl EXCEPT
               !.feedback_data = Append(kept, feedback),
               !.learning_metrics.total_feedback = @ + 1,
               !.department_performance = Counted(@, department),
               !.issue_type_accuracy = Counted(@, issue_type),
               !.response_quality_scores =
                   DictSet(@, issue_type, Append(scores, IF is_helpful THEN 1 ELSE 0))]
    IN  IF Len(recorded.feedback_data) % update_every = 0
        THEN _update_model_parameters(recorded, t)
        ELSE recorded

\* ------------------------------------------------------------ session state
\* CivicMindAI.initialize_session_state: the counters and the chat history.
initialize_session_state ==
    [chat_history |-> <<>>, query_count |-> 0,
     category_stats |-> [c \in {"Water Supply", "Garbage Collection", "Electricity",
                                "Roads", "Transport", "Other"} |-> 0]]

\* The update of category_stats in process_and_display_query.
update_category_stats(category_stats, issue_type) ==
    IF issue_type \in DOMAIN category_stats
    THEN [category_stats EXCEPT ![title(replace(issue_type, "_", " "))] = @ + 1]
    ELSE [category_stats EXCEPT !["Other"] = @ + 1]

\* ------------------------------------------------------------------ state
VARIABLES
    now,            \* datetime.now() / time.time(), in ticks
    memory_cache,   \* CacheModule.memory_cache
    files,          \* the *.json files of CacheModule.cache_dir
    cache_stats,    \* CacheModule.cache_stats
    last,           \* the last cache operation and what it returned
    budget,         \* calls of cache_response and I/O failures so far
    modules,        \* kind: "full" after setup_ai_modules, "basic" after
                    \* setup_basic_modules; api_key: openai.api_key is set
    basic_cache,    \* cache_module when it is the dict of setup_basic_modules
    pc,             \* the stage process_civic_query executes next
    run,            \* the locals of the current call of process_civic_query
    result,         \* what the last call of process_civic_query returned
    stages,         \* the stages the current call has gone through
    history,        \* the queries answered so far, with their results
    nq,             \* the normalization under test: input and results
    cq,             \* the classification under test: query and results
    fl_manager,     \* the FederatedLearningManager
    session_state   \* st.session_state

cacheVars == <<now, memory_cache, files, cache_stats, last, budget>>
pipeVars == <<modules, basic_cache, pc, run, result, stages, history,
              fl_manager, session_state>>
vars == <<now, memory_cache, files, cache_stats, last, budget,
          modules, basic_cache, pc, run, result, stages, history, nq, cq,
          fl_manager, session_state>>

\* The cache as the operators above take it.
Cache == [memory_cache |-> memory_cache, files |-> files, cache_stats |-> cache_stats]

\* ------------------------------------------------------------------ inputs
InputA == [response |-> <<"r1">>, department |-> "d1", sources |-> <<"s1">>]
InputB == [response |-> <<"r2">>, department |-> "d2", sources |-> <<>>]

\* The calls store(q, r, d, s) made: the two spellings of the area with
\* different answers, and two more keys.
StoreCalls ==
    { <<"tnagar", InputA>>, <<"T Nagar!", InputB>>,
      <<"bus", InputA>>, <<"xy", InputB>> }

\* Whether get_cached_response(query) reaches the cache directory's file: the
\* memory cache holds no valid item and the file exists.
ReadsFile(C, query, t) ==
    LET cache_key == _generate_cache_key(query)
    IN  /\ cache_key \in DOMAIN C.files
        /\ ~(/\ DictHas(C.memory_cache, cache_key)
             /\ _is_cache_valid(DictGet(C.memory_cache, cache_key), t))

\* Whether an I/O outcome is a failure, and whether one more is allowed.
IsFault(io) == io # "ok"
MayFail(io) == IsFault(io) => budget.faults < MaxFaults
Charge(io) == IF IsFault(io) THEN 1 ELSE 0

\* ------------------------------------------------------------ initial state
\* CacheModule.__init__ on an empty cache directory.
InitCache ==
    /\ now = 0
    /\ memory_cache = <<>>
    /\ files = <<>>
    /\ cache_stats = [hits |-> 0, misses |-> 0, total_requests |-> 0]
    /\ last = [op |-> "none"]
    /\ budget = [stores |-> 0, faults |-> 0]

NoRun == [query |-> ""]
FullModules == [kind |-> "full", api_key |-> FALSE]
NoResult == [tag |-> "none"]

\* No query has been submitted.
InitPipeline ==
    /\ basic_cache = <<>>
    /\ pc = "Idle"
    /\ run = NoRun
    /\ result = NoResult
    /\ stages = <<>>
    /\ history = <<>>
    /\ fl_manager = FederatedLearningManager
    /\ session_state = initialize_session_state

NormIdle == [pc |-> "idle", input |-> "", once |-> "", twice |-> ""]
ClassIdle == [pc |-> "idle"]

\* ------------------------------------------------ the cache on its own
\* store(q, r, d, s)
Store(q, in, io) ==
    /\ budget.stores < MaxStores
    /\ MayFail(io)
    /\ LET C == cache_response(Cache, q, in.response, in.department, in.sources, now, io)
       IN  /\ memory_cache' = C.memory_cache
           /\ files' = C.files
           /\ cache_stats' = C.cache_stats
    /\ last' = [op |-> "store", query |-> q, input |-> in, io |-> io, at |-> now]
    /\ budget' = [stores |-> budget.stores + 1, faults |-> budget.faults + Charge(io)]
    /\ UNCHANGED <<now, nq, cq>>
    /\ UNCHANGED pipeVars

\* lookup(q)
Lookup(q, io) ==
    /\ cache_stats.total_requests < MaxRequests
    /\ MayFail(io)
    /\ IsFault(io) => ReadsFile(Cache, q, now)
    /\ LET C == get_cached_response(Cache, q, now, io)
       IN  /\ memory_cache' = C.memory_cache
           /\ files' = C.files
           /\ cache_stats' = C.cache_stats
           /\ last' = [op |-> "lookup", query |-> q, io |-> io, at |-> now,
                       reads_file |-> ReadsFile(Cache, q, now),
                       ret |-> C.ret, served |-> C.served, raised |-> C.exc # "none"]
    /\ budget' = [budget EXCEPT !.faults = @ + Charge(io)]
    /\ UNCHANGED <<now, nq, cq>>
    /\ UNCHANGED pipeVars

\* evict(): CacheModule.optimize_cache
Optimize ==
    /\ \E R \in files_to_remove(files) :
          files' = [k \in (DOMAIN files) \ R |-> files[k]]
    /\ memory_cache' = optimize_memory(memory_cache)
    /\ last' = [op |-> "none"]
    /\ UNCHANGED <<now, cache_stats, budget, nq, cq>>
    /\ UNCHANGED pipeVars

\* The clock advances.
Tick ==
    /\ now < MaxTime
    /\ pc \in {"Idle", "Done", "Compose"}
    /\ now' = now + 1
    /\ last' = [op |-> "none"]
    /\ UNCHANGED <<memory_cache, files, cache_stats, budget, nq, cq>>
    /\ UNCHANGED pipeVars

Init ==
    /\ InitCache /\ modules = FullModules /\ InitPipeline
    /\ nq = NormIdle /\ cq = ClassIdle

Next ==
    \/ \E c \in StoreCalls : Store(c[1], c[2], "ok")
    \/ \E q \in CacheQueries : Lookup(q, "ok")
    \/ Optimize
    \/ Tick

\* The cache driven by store, lookup, evict and the clock, the cache
\* directory never failing.
Spec == Init /\ [][Next]_vars

\* ------------------------------------- the cache on a failing directory
\* The kinds of file that are no record of the cache: text that is no JSON,
\* JSON that is no object, and objects without a timestamp or a response.
MalformedKinds == {"partial", "nonobject", "no_timestamp", "no_response"}

\* What an earlier run or another program can leave in the directory: a
\* malformed file, or a record that has expired since ("stale").
LeftKinds == MalformedKinds \cup {"stale"}

\* A file of kind k under the key of query q, written at time t.
MalformedFile(k, q, t) ==
    CASE k = "stale" ->
            [kind |-> "json", mtime |-> t,
             item |-> NewItem(q, <<"r3">>, "d3", <<>>, t - ttl_hours)]
      [] k = "partial"   -> [kind |-> "partial", item |-> NoItem, mtime |-> t]
      [] k = "nonobject" -> [kind |-> "nonobject", item |-> NoItem, mtime |-> t]
      [] k = "no_timestamp" ->
            [kind |-> "json", mtime |-> t,
             item |-> [query |-> q, response |-> <<"r3">>, department |-> "d3",
                       sources |-> <<>>, cache_key |-> _generate_cache_key(q)]]
      [] k = "no_response" ->
            [kind |-> "json", mtime |-> t,
             item |-> [query |-> q, department |-> "d3", sources |-> <<>>,
                       timestamp |-> isoformat(t),
                       cache_key |-> _generate_cache_key(q)]]

\* Whether a file is no record of the cache.
IsMalformed(f) ==
    \/ f.kind # "json"
    \/ "timestamp" \notin DOMAIN f.item
    \/ "response" \notin DOMAIN f.item

\* Whether get_cached_response(query), once it has opened the file, calls
\* cache_file.unlink().
WouldUnlink(C, query, t) ==
    LET f == C.files[_generate_cache_key(query)]
    IN  /\ ReadsFile(C, query, t)
        /\ \/ f.kind = "partial"
           \/ f.kind = "json" /\ ~_is_cache_valid(f.item, t)
           \/ f.kind = "json" /\ "response" \notin DOMAIN f.item

\* Something other than this cache (an earlier run, a crash in mid-write, an
\* editor, a disk error) leaves a file of kind k under the key of q.
Corrupt(q, k) ==
    /\ files' = FilePut(files, _generate_cache_key(q), MalformedFile(k, q, now))
    /\ last' = [op |-> "none"]
    /\ UNCHANGED <<now, memory_cache, cache_stats, budget, nq, cq>>
    /\ UNCHANGED pipeVars

\* The queries and the stores made on the failing directory.
IOQueries == {"tnagar", "bus"}
IOStoreCalls == { <<"tnagar", InputA>>, <<"bus", InputB>> }

NextIO ==
    \/ \E c \in IOStoreCalls, io \in {"ok", "open_error", "write_error"} :
          Store(c[1], c[2], io)
    \/ \E q \in IOQueries, io \in {"ok", "open_error", "unlink_error"} :
          /\ io = "unlink_error" => WouldUnlink(Cache, q, now)
          /\ Lookup(q, io)
    \/ \E q \in IOQueries, k \in LeftKinds : Corrupt(q, k)

\* The cache on a directory whose files can be malformed or stale and whose
\* operations can fail, within one tick of the clock.
SpecIO == Init /\ [][NextIO]_vars

\* --------------------------------------- the cache on a shared directory
\* Another CacheModule on the same directory starts _store_persistent_cache:
\* open(cache_file, 'w') has truncated the file and json.dump has not
\* finished; pending is the item the file holds once it has.
WriterOpen(q, in) ==
    /\ budget.stores < MaxStores
    /\ files' = FilePut(files, _generate_cache_key(q),
                        [kind |-> "partial", item |-> NoItem, mtime |-> now,
                         pending |-> NewItem(q, in.response, in.department,
                                             in.sources, now)])
    /\ budget' = [budget EXCEPT !.stores = @ + 1]
    /\ last' = [op |-> "none"]
    /\ UNCHANGED <<now, memory_cache, cache_stats, nq, cq>>
    /\ UNCHANGED pipeVars

\* The files another CacheModule is writing.
BeingWritten == {k \in DOMAIN files : "pending" \in DOMAIN files[k]}

\* json.dump of the other CacheModule finishes and the file is closed.  (A
\* file unlinked or rewritten in the meantime is no longer in BeingWritten:
\* what the writer wrote is gone with it.)
WriterDump(k) ==
    /\ k \in BeingWritten
    /\ files' = FilePut(files, k, [kind |-> "json", item |-> files[k].pending,
                                   mtime |-> now])
    /\ last' = [op |-> "none"]
    /\ UNCHANGED <<now, memory_cache, cache_stats, budget, nq, cq>>
    /\ UNCHANGED pipeVars

NextShared ==
    \/ \E c \in IOStoreCalls : Store(c[1], c[2], "ok")
    \/ \E q \in IOQueries : Lookup(q, "ok")
    \/ \E c \in IOStoreCalls : WriterOpen(c[1], c[2])
    \/ \E k \in DOMAIN files : WriterDump(k)
    \/ Tick

\* Two CacheModules on one directory: the reads and writes of this one
\* interleaved with the file writes of the other.
SpecShared == Init /\ [][NextShared]_vars

\* ------------------------------------------------------------------ restart
\* The number of cache files _load_persistent_cache reads (100 in the source,
\* scaled to the model's directory).
load_limit == 2

\* cache_files after sort(key=st_mtime, reverse=True): the files of the
\* directory, most recently modified first; files of equal mtime stand in
\* the order glob() returned them, which is any order.
RecentOrders(fs) ==
    LET n == Cardinality(DOMAIN fs)
    IN  { o \in [1..n -> DOMAIN fs] :
            /\ \A i, j \in 1..n : i # j => o[i] # o[j]
            /\ \A i, j \in 1..n : i < j => fs[o[i]].mtime >= fs[o[j]].mtime }

\* cache_files[:100]
Top(o) == SubSeq(o, 1, IF Len(o) < load_limit THEN Len(o) ELSE load_limit)

\* The loop of _load_persistent_cache from file i of order on.  A file
\* json.load rejects (JSONDecodeError) and a record that is not valid are
\* unlinked; JSON that is no object makes _is_cache_valid raise
\* AttributeError, which the handler of the loop body does not catch: the
\* handler of the method logs it and the method returns.
RECURSIVE LoadFiles(_, _, _, _, _)
LoadFiles(mc, fs, order, i, t) ==
    IF i > Len(order) THEN [memory_cache |-> mc, files |-> fs]
    ELSE LET k == order[i]
             f == fs[k]
         IN  CASE f.kind = "nonobject" -> [memory_cache |-> mc, files |-> fs]
               [] f.kind = "partial" ->
                     LoadFiles(mc, FileDel(fs, k), order, i + 1, t)
               [] f.kind = "json" ->
                     IF _is_cache_valid(f.item, t)
                     THEN LoadFiles(DictSet(mc, k, f.item), fs, order, i + 1, t)
                     ELSE LoadFiles(mc, FileDel(fs, k), order, i + 1, t)

\* CacheModule._load_persistent_cache on the directory fs, cache_files
\* sorted as o.
_load_persistent_cache(fs, o, t) == LoadFiles(<<>>, fs, Top(o), 1, t)

\* The program is started again on the directory: CacheModule.__init__.
Restart ==
    /\ \E o \in RecentOrders(files) :
          LET C == _load_persistent_cache(files, o, now)
          IN  /\ memory_cache' = C.memory_cache
              /\ files' = C.files
    /\ cache_stats' = [hits |-> 0, misses |-> 0, total_requests |-> 0]
    /\ last' = [op |-> "restart", at |-> now]
    /\ UNCHANGED <<now, budget, nq, cq>>
    /\ UNCHANGED pipeVars

\* The kinds of file an earlier run leaves behind for a restart.
RestartKinds == {"partial", "nonobject", "stale"}

NextRestart ==
    \/ \E c \in StoreCalls : Store(c[1], c[2], "ok")
    \/ \E q \in IOQueries, k \in RestartKinds : Corrupt(q, k)
    \/ Restart
    \/ Tick

\* The cache stopped and started again on its directory, which can hold
\* malformed and stale files.
SpecRestart == Init /\ [][NextRestart]_vars

\* -------------------------------------------------------- the two tiers
\* CacheModule.clear_cache.  older_than_hours = -1 stands for None: both
\* tiers are emptied.  Otherwise the memory items whose timestamp is before
\* the cutoff, or is no timestamp, and the files whose st_mtime is before the
\* cutoff are removed.
clear_cache(C, older_than_hours, t) ==
    IF older_than_hours = -1
    THEN [C EXCEPT !.memory_cache = <<>>, !.files = <<>>]
    ELSE LET cutoff_time == t - older_than_hours
             Kept(e) == /\ "timestamp" \in DOMAIN e.v
                        /\ e.v.timestamp.fmt = "iso"
                        /\ ~(e.v.timestamp.t < cutoff_time)
         IN  [C EXCEPT
                !.memory_cache = SelectSeq(C.memory_cache, Kept),
                !.files = [k \in {x \in DOMAIN C.files :
                                     ~(C.files[x].mtime < cutoff_time)}
                             |-> C.files[k]]]

\* clear(older_than_hours)
Clear(older_than_hours) ==
    /\ LET C == clear_cache(Cache, older_than_hours, now)
       IN  /\ memory_cache' = C.memory_cache
           /\ files' = C.files
    /\ last' = [op |-> "clear", older_than_hours |-> older_than_hours]
    /\ UNCHANGED <<now, cache_stats, budget, nq, cq>>
    /\ UNCHANGED pipeVars

\* CacheModule.__init__ on a directory in which an earlier run left the
\* record of one query.
InitTiers ==
    /\ now = 0
    /\ LET cache_key == _generate_cache_key("Bus route complaint")
           item == NewItem("Bus route complaint", <<"r0">>, "d0", <<>>, 0)
           left == FilePut(<<>>, cache_key,
                           [kind |-> "json", item |-> item, mtime |-> 0])
       IN  \E o \in RecentOrders(left) :
              /\ memory_cache = _load_persistent_cache(left, o, 0).memory_cache
              /\ files = _load_persistent_cache(left, o, 0).files
    /\ cache_stats = [hits |-> 0, misses |-> 0, total_requests |-> 0]
    /\ last = [op |-> "none"]
    /\ budget = [stores |-> 0, faults |-> 0]
    /\ modules = FullModules /\ InitPipeline
    /\ nq = NormIdle /\ cq = ClassIdle

NextTiers ==
    \/ \E c \in StoreCalls : Store(c[1], c[2], "ok")
    \/ \E q \in CacheQueries \cup {"Bus route complaint"} : Lookup(q, "ok")
    \/ Optimize
    \/ \E older_than_hours \in {-1, 0, 1} : Clear(older_than_hours)
    \/ Tick

\* The memory cache and the directory under store, lookup, evict and clear,
\* no file operation failing.
SpecTiers == InitTiers /\ [][NextTiers]_vars

\* ------------------------------------------------------ the normalization
\* The strings of at most n characters over the alphabet.
NormAlphabet == {"a", "T", " ", ".", "!"}

RECURSIVE StringsUpTo(_)
StringsUpTo(n) ==
    IF n = 0 THEN {""}
    ELSE StringsUpTo(n - 1) \cup {s \o c : s \in StringsUpTo(n - 1), c \in NormAlphabet}

\* The spellings of the areas of area_variations.
AliasWords ==
    {"t nagar", "tnagar", "T. Nagar", "t.nagar", "anna nagar", "annanagar",
     "Anna  Nagar", "adyar", "velachery"}

NormInputs ==
    StringsUpTo(MaxLen)
        \cup {w \o s : w \in AliasWords, s \in StringsUpTo(1)}
        \cup {s \o w : w \in AliasWords, s \in StringsUpTo(1)}

InitNorm ==
    /\ InitCache /\ modules = FullModules /\ InitPipeline
    /\ nq \in {[pc |-> "input", input |-> x, once |-> "", twice |-> ""] : x \in NormInputs}
    /\ cq = ClassIdle

\* normalize(x)
NormalizeOnce ==
    /\ nq.pc = "input"
    /\ nq' = [nq EXCEPT !.pc = "once", !.once = _normalize_query(nq.input)]
    /\ UNCHANGED <<cacheVars, cq>>
    /\ UNCHANGED pipeVars

\* normalize(normalize(x))
NormalizeTwice ==
    /\ nq.pc = "once"
    /\ nq' = [nq EXCEPT !.pc = "twice", !.twice = _normalize_query(nq.once)]
    /\ UNCHANGED <<cacheVars, cq>>
    /\ UNCHANGED pipeVars

NextNorm == NormalizeOnce \/ NormalizeTwice

\* _normalize_query applied to every input string, and again to its result.
SpecNormalize == InitNorm /\ [][NextNorm]_vars

\* ----------------------------------------- classification specification
\* The area part and the issue part of the queries classified: zone names
\* with and without the zone's number, pincodes, pincode area names,
\* well-known areas, and several of them together; keywords of one category,
\* of several, and of none.
AreaPhrases ==
    {"", "Adyar", "13 Adyar", "ZONE 13 ADYAR", "Zone_13_Adyar", "Manali",
     "8 anna nagar 600020", "Anna Nagar", "600004", "13 Adyar Mylapore",
     "5 Royapuram velachery", "T Nagar", "Velachery", "tambaram"}

IssuePhrases ==
    {"", "Water supply issue in", "Bus route complaint", "POWER outage",
     "garbage bin overflow", "pothole on street", "new connection",
     "bus water", "fare meter waste", "hello", "xyzzy"}

ClassifyQueries ==
    {IF a = "" THEN i ELSE IF i = "" THEN a ELSE i \o " " \o a :
        i \in IssuePhrases, a \in AreaPhrases}

\* The two documents load_civic_data opens.
Documents == {"chennai_complete_civic_data.json", "chennai_pincode_mapping.json"}

\* A plausible slip: only the civic data document is looked for.
load_civic_data_first_only(present) ==
    IF "chennai_complete_civic_data.json" \in present THEN "complete" ELSE "fallback"

\* CivicMindAI.load_civic_data with the documents in present on disk: open()
\* of a missing one raises FileNotFoundError and both attributes are set from
\* the substituted data.
load_civic_data(present) ==
    IF Documents \subseteq present THEN "complete" ELSE "fallback"

\* self.civic_data and self.pincode_mapping after load_civic_data.
LoadedData(d) == IF d = "complete" THEN CompleteData ELSE FallbackData

InitClassify ==
    /\ InitCache /\ modules = FullModules /\ InitPipeline
    /\ nq = NormIdle
    /\ cq \in {[pc |-> "input", docs |-> present,
                  data |-> load_civic_data(present), query |-> q] :
                  present \in SUBSET Documents, q \in ClassifyQueries}

\* Step 2 of process_civic_query on the query.
Classify ==
    /\ cq.pc = "input"
    /\ cq' = [pc |-> "classified", docs |-> cq.docs, data |-> cq.data,
              query |-> cq.query,
              area_info |-> identify_area_from_query(LoadedData(cq.data), cq.query),
              issue_type |-> identify_issue_type(cq.query)]
    /\ UNCHANGED <<cacheVars, nq>>
    /\ UNCHANGED pipeVars

\* Step 3: retrieve_civic_information.  path = "ok": the RAG module answers;
\* "raises": an exception inside RAGModule.retrieve_information;
\* "unavailable": rag_module is None.
Retrieve(path) ==
    /\ cq.pc = "classified"
    /\ cq' = [pc |-> "retrieved", docs |-> cq.docs, data |-> cq.data,
              query |-> cq.query,
              area_info |-> cq.area_info, issue_type |-> cq.issue_type,
              path |-> path,
              civic_info |->
                 retrieve_civic_information(
                    IF path = "unavailable" THEN "basic" ELSE "full",
                    cq.query, cq.area_info, cq.issue_type, path)]
    /\ UNCHANGED <<cacheVars, nq>>
    /\ UNCHANGED pipeVars

\* Step 4: apply_knowledge_graph_reasoning.  outcome = "ok": the KAG module
\* answers; "raises": an exception inside reason_over_graph; "unavailable":
\* kag_module is None.
Reason(outcome) ==
    /\ cq.pc = "retrieved"
    /\ cq' = [pc |-> "reasoned", query |-> cq.query, area_info |-> cq.area_info,
              issue_type |-> cq.issue_type, civic_info |-> cq.civic_info,
              outcome |-> outcome,
              contextual_info |->
                 apply_knowledge_graph_reasoning(
                    IF outcome = "unavailable" THEN "basic" ELSE "full",
                    cq.query, cq.area_info, cq.issue_type, outcome)]
    /\ UNCHANGED <<cacheVars, nq>>
    /\ UNCHANGED pipeVars

\* Step 5.  api_key: openai.api_key is set; generated: what the generative
\* call does ("text" when it is not made).
Compose(api_key, generated) ==
    /\ cq.pc = "reasoned"
    /\ ~api_key => generated = "text"
    /\ cq' = [pc |-> "composed", query |-> cq.query, area_info |-> cq.area_info,
              issue_type |-> cq.issue_type, civic_info |-> cq.civic_info,
              api_key |-> api_key, generated |-> generated,
              response |-> compose(api_key, cq.query, cq.area_info, cq.issue_type,
                                   cq.civic_info, cq.contextual_info, generated)]
    /\ UNCHANGED <<cacheVars, nq>>
    /\ UNCHANGED pipeVars

NextClassify ==
    \/ Classify
    \/ \E path \in {"ok", "raises", "unavailable"} : Retrieve(path)
    \/ \E outcome \in {"ok", "raises", "unavailable"} : Reason(outcome)
    \/ \E api_key \in BOOLEAN, generated \in {"text", "blank", "raises"} :
          Compose(api_key, generated)

\* Classification, retrieval, reasoning and composition applied to every
\* query, on the complete and on the substituted data.
SpecClassify == InitClassify /\ [][NextClassify]_vars

\* ------------------------------------------------------------ the pipeline
\* A dict returned by check_cache.
PyDict(entry) == [tag |-> "dict", val |-> entry]

\* bool(x) of what check_cache returned: None and the empty str are false.
Truthy(x) ==
    CASE x.tag = "None" -> FALSE
      [] x.tag = "str"  -> x.val # <<>>
      [] x.tag = "dict" -> TRUE

\* query_hash of check_cache and cache_response on the dict: the MD5 digest
\* (taken to be injective) of query.lower(), computed once per query.
HashTable == [q \in PipelineQueries |-> lower(q)]
query_hash(query) == HashTable[query]

\* CivicMindAI.check_cache.  With the dict of setup_basic_modules the key is
\* the MD5 digest (taken to be injective) of query.lower() and no age is
\* examined; otherwise the call goes to CacheModule.get_cached_response.
check_cache(kind, C, basic, query, t) ==
    IF kind = "basic"
    THEN [memory_cache |-> C.memory_cache, files |-> C.files,
          cache_stats |-> C.cache_stats,
          ret |-> IF query_hash(query) \in DOMAIN basic
                  THEN PyDict(basic[query_hash(query)]) ELSE PyNone,
          served |-> IF query_hash(query) \in DOMAIN basic
                     THEN basic[query_hash(query)] ELSE NoItem,
          exc |-> "none"]
    ELSE get_cached_response(C, query, t, "ok")

\* CivicMindAI.cache_response on the dict of setup_basic_modules.
basic_cache_response(basic, query, response, department, t) ==
    FilePut(basic, query_hash(query),
            [response |-> response, department |-> department,
             timestamp |-> [fmt |-> "datetime", t |-> t], sources |-> <<>>])

\* The message of the except branch of process_civic_query.
ApologyText ==
    <<"I apologize, but I encountered an error processing your query.",
      "Please try again or contact support.">>

\* A plausible slip: the fault is reported under the default department.
ErrorResultUnknown(e, elapsed) ==
    [response |-> ApologyText, sources |-> <<>>, processing_time |-> elapsed,
     cache_hit |-> FALSE, department |-> "Unknown", error |-> e]

\* The dict the except branch of process_civic_query returns.
ErrorResult(e, elapsed) ==
    [response |-> ApologyText, sources |-> <<>>, processing_time |-> elapsed,
     cache_hit |-> FALSE, department |-> "System", error |-> e]

\* The dict process_civic_query returns on a cache hit.  cached_response is
\* subscripted: a str raises TypeError, which the except branch reports.
HitResult(cached_response, elapsed) ==
    IF cached_response.tag = "dict"
    THEN [response |-> cached_response.val.response,
          sources |-> Get(cached_response.val, "sources", <<>>),
          processing_time |-> elapsed, cache_hit |-> TRUE,
          department |-> Get(cached_response.val, "department", "Unknown")]
    ELSE ErrorResult("TypeError: string indices must be integers", elapsed)

\* The dict process_civic_query returns after a cache miss.
MissResult(r, elapsed) ==
    [response |-> r.response, sources |-> Get(r.civic_info, "sources", <<>>),
     processing_time |-> elapsed, cache_hit |-> FALSE,
     department |-> Get(r.civic_info, "department", "Unknown"),
     area |-> Get(r.area_info, "name", "General"), issue_type |-> r.issue_type]

\* A plausible slip: the response is returned without being cached.
NextStageNoWrite(stage) ==
    CASE stage = "CacheCheck" -> "Classify"
      [] stage = "Classify"   -> "Retrieve"
      [] stage = "Retrieve"   -> "Reason"
      [] stage = "Reason"     -> "Compose"
      [] stage = "Compose"    -> "Return"

\* The order of the steps of process_civic_query after the cache check.
NextStage(stage) ==
    CASE stage = "CacheCheck" -> "Classify"
      [] stage = "Classify"   -> "Retrieve"
      [] stage = "Retrieve"   -> "Reason"
      [] stage = "Reason"     -> "Compose"
      [] stage = "Compose"    -> "CacheWrite"
      [] stage = "CacheWrite" -> "Return"

\* What a step leaves of the cache when it does not touch it; failed: the
\* step met a failure of its environment, which the budget counts.
CacheUntouched(failed) ==
    /\ failed => budget.faults < MaxFaults
    /\ budget' = [budget EXCEPT !.faults = @ + (IF failed THEN 1 ELSE 0)]
    /\ UNCHANGED <<now, memory_cache, files, cache_stats, last>>

\* process_civic_query returns res: the call and its locals are over.
\* fault: "none"; "subscript", the TypeError of cached_response["response"] on
\* a str; "stage", an exception raised in a step.
Finish(stage, res, fault) ==
    /\ result' = res
    /\ run' = NoRun
    /\ pc' = "Done"
    /\ stages' = stages \o (IF stage = "Return" THEN <<"Done">> ELSE <<stage, "Done">>)
    /\ history' = Append(history, [query |-> run.query, started |-> run.start_time,
                                   finished |-> now,
                                   cache_hit |-> res.cache_hit,
                                   department |-> res.department,
                                   sources |-> res.sources,
                                   empty |-> res.response = <<>>,
                                   fault |-> fault])
    /\ session_state' =
          [session_state EXCEPT
             !.chat_history = Append(@, [query |-> run.query,
                                         response |-> res.response,
                                         department |-> res.department,
                                         cache_hit |-> res.cache_hit,
                                         sources |-> res.sources]),
             !.query_count = @ + 1]

\* The call goes on to its next step with the locals r.
Continue(stage, r) ==
    /\ run' = r
    /\ pc' = NextStage(stage)
    /\ stages' = Append(stages, stage)
    /\ UNCHANGED <<result, history, session_state>>

\* process_and_display_query up to its call of process_civic_query: the
\* sidebar sets openai.api_key when a key is entered (key), the category
\* counter is updated, then process_civic_query(query, model) is called:
\* start_time = time.time().
Submit(q, key) ==
    /\ pc \in {"Idle", "Done"}
    /\ Len(history) < MaxQueries
    /\ pc' = "CacheCheck"
    /\ modules' = [modules EXCEPT !.api_key = @ \/ key]
    /\ run' = [query |-> q, start_time |-> now,
               cached_response |-> PyNone, area_info |-> EmptyDict,
               issue_type |-> "", civic_info |-> EmptyDict,
               contextual_info |-> EmptyDict, response |-> <<>>]
    /\ stages' = <<"Received">>
    /\ result' = NoResult
    /\ session_state' =
          [session_state EXCEPT
             !.category_stats = update_category_stats(@, IssueTable[q])]
    /\ UNCHANGED <<history, basic_cache, nq, cq, fl_manager>>
    /\ UNCHANGED cacheVars

\* Step 1: check_cache, and the return on a hit.
CacheCheckStep ==
    /\ pc = "CacheCheck"
    /\ LET L == check_cache(modules.kind, Cache, basic_cache, run.query, now)
       IN  /\ memory_cache' = L.memory_cache
           /\ files' = L.files
           /\ cache_stats' = L.cache_stats
           /\ last' = [op |-> "lookup", query |-> run.query, io |-> "ok", at |-> now,
                       reads_file |-> modules.kind = "full"
                                      /\ ReadsFile(Cache, run.query, now),
                       ret |-> L.ret, served |-> L.served,
                       raised |-> L.exc # "none"]
           /\ IF L.exc # "none"
              THEN Finish("CacheCheck", ErrorResult(L.exc, now - run.start_time),
                          "stage")
              ELSE IF Truthy(L.ret)
              THEN Finish("CacheCheck", HitResult(L.ret, now - run.start_time),
                          IF L.ret.tag = "dict" THEN "none" ELSE "subscript")
              ELSE Continue("CacheCheck", [run EXCEPT !.cached_response = L.ret])
    /\ UNCHANGED <<now, budget, modules, basic_cache, nq, cq, fl_manager>>

\* Step 2: identify_area_from_query and identify_issue_type.  raises: the
\* step raises an exception nothing in it handles.
ClassifyStep(raises) ==
    /\ pc = "Classify"
    /\ IF raises
       THEN Finish("Classify",
                   ErrorResult("exception raised while classifying",
                               now - run.start_time), "stage")
       ELSE Continue("Classify",
                     [run EXCEPT !.area_info = AreaTable[run.query],
                                 !.issue_type = IssueTable[run.query]])
    /\ UNCHANGED <<modules, basic_cache, nq, cq, fl_manager>>
    /\ CacheUntouched(raises)

\* Step 3: retrieve_civic_information; a failure inside the retriever is
\* handled there.
RetrieveStep(outcome) ==
    /\ pc = "Retrieve"
    /\ Continue("Retrieve",
                [run EXCEPT !.civic_info =
                   retrieve_civic_information(modules.kind, run.query, run.area_info,
                                              run.issue_type, outcome)])
    /\ UNCHANGED <<modules, basic_cache, nq, cq, fl_manager>>
    /\ CacheUntouched(outcome # "ok")

\* Step 4: apply_knowledge_graph_reasoning; a failure inside the reasoner is
\* handled there.
ReasonStep(outcome) ==
    /\ pc = "Reason"
    /\ Continue("Reason",
                [run EXCEPT !.contextual_info =
                   apply_knowledge_graph_reasoning(modules.kind, run.query, run.area_info,
                                                   run.issue_type, outcome)])
    /\ UNCHANGED <<modules, basic_cache, nq, cq, fl_manager>>
    /\ CacheUntouched(outcome # "ok")

\* Step 5: the response, generated when openai.api_key is set, the template
\* otherwise.  outcome is what the generative call does.
ComposeStep(outcome) ==
    /\ pc = "Compose"
    /\ ~modules.api_key => outcome = "text"
    /\ Continue("Compose",
                [run EXCEPT !.response =
                   compose(modules.api_key, run.query, run.area_info, run.issue_type,
                           run.civic_info, run.contextual_info, outcome)])
    /\ UNCHANGED <<modules, basic_cache, nq, cq, fl_manager>>
    /\ CacheUntouched(outcome # "text")

\* Step 6: CivicMindAI.cache_response(query, response, department).
CacheWriteStep ==
    /\ pc = "CacheWrite"
    /\ LET department == Get(run.civic_info, "department", "Unknown")
           C == cache_response(Cache, run.query, run.response, department, <<>>,
                               now, "ok")
       IN  IF modules.kind = "basic"
           THEN /\ basic_cache' = basic_cache_response(basic_cache, run.query,
                                                       run.response, department, now)
                /\ UNCHANGED <<memory_cache, files, cache_stats>>
           ELSE /\ memory_cache' = C.memory_cache
                /\ files' = C.files
                /\ cache_stats' = C.cache_stats
                /\ UNCHANGED basic_cache
    /\ Continue("CacheWrite", run)
    /\ UNCHANGED <<now, last, budget, modules, nq, cq, fl_manager>>

\* Step 7 and the return: the bookkeeping (record_interaction, response_times)
\* and the result.  raises: the bookkeeping raises.
ReturnStep(raises) ==
    /\ pc = "Return"
    /\ IF raises
       THEN Finish("Return",
                   ErrorResult("exception raised after the cache write",
                               now - run.start_time), "stage")
       ELSE Finish("Return", MissResult(run, now - run.start_time), "none")
    /\ fl_manager' = IF modules.kind = "full"
                     THEN record_interaction(fl_manager, run.query, run.issue_type, now)
                     ELSE fl_manager
    /\ UNCHANGED <<modules, basic_cache, nq, cq>>
    /\ CacheUntouched(raises)

\* setup_ai_modules succeeded, or a module's constructor raised and
\* setup_basic_modules ran; openai.api_key may come from the environment.
InitPipe ==
    /\ InitCache
    /\ modules \in [kind : {"full", "basic"}, api_key : BOOLEAN]
    /\ InitPipeline
    /\ nq = NormIdle
    /\ cq = ClassIdle

NextPipe ==
    \/ \E q \in PipelineQueries, key \in BOOLEAN : Submit(q, key)
    \/ CacheCheckStep
    \/ \E raises \in BOOLEAN : ClassifyStep(raises)
    \/ \E outcome \in {"ok", "raises"} : RetrieveStep(outcome)
    \/ \E outcome \in {"ok", "raises"} : ReasonStep(outcome)
    \/ \E outcome \in {"text", "blank", "raises"} : ComposeStep(outcome)
    \/ CacheWriteStep
    \/ \E raises \in BOOLEAN : ReturnStep(raises)
    \/ Tick

\* Queries answered one after the other by process_civic_query.
SpecPipeline == InitPipe /\ [][NextPipe]_vars

\* --------------------------------------------------- feedback specification
\* record_feedback(query, is_helpful, issue_type), the department being the
\* default of the call.
RecordFeedback(query, is_helpful, issue_type) ==
    /\ fl_manager.learning_metrics.total_feedback < MaxFeedback
    /\ fl_manager' = record_feedback(fl_manager, query, is_helpful, issue_type,
                                     "Unknown", now)
    /\ UNCHANGED <<cacheVars, nq, cq, session_state>>
    /\ UNCHANGED <<modules, basic_cache, pc, run, result, stages, history>>

NextFeedback ==
    \E is_helpful \in BOOLEAN, issue_type \in {"unknown", "water_supply"} :
        RecordFeedback("Bus route complaint", is_helpful, issue_type)

\* The feedback manager under calls of record_feedback.
SpecFeedback == Init /\ [][NextFeedback]_vars

\* ================================================================ properties
\* The call that returned last.
LastCall == history[Len(history)]

\* ------------------------------------------------------------------- C8
\* C8: normalize is idempotent: for every query string x over letters,
\* spaces, the punctuation set and the alias words,
\* normalize(normalize(x)) = normalize(x).
C8_NormalizeIdempotent == nq.pc = "twice" => nq.twice = nq.once

\* ------------------------------------------------------------------- C2
\* The step is a lookup made right after a store under the same key, with no
\* clock advance in between.
LookupAfterStore ==
    /\ last.op = "store"
    /\ last'.op = "lookup"
    /\ cache_stats'.total_requests = cache_stats.total_requests + 1
    /\ _generate_cache_key(last'.query) = _generate_cache_key(last.query)

\* C2: lookup(q) right after store(q, r, d, s) returns the response r, the
\* department d and the sources s of that store, the most recent one under
\* the key.
C2_RoundTrip ==
    [][LookupAfterStore =>
          /\ last'.ret.tag = "dict"
          /\ last'.ret.val.response = last.input.response
          /\ last'.ret.val.department = last.input.department
          /\ last'.ret.val.sources = last.input.sources]_vars

\* ------------------------------------------------------------------- C9
\* The step is a call of get_cached_response.
LookupStep ==
    /\ last'.op = "lookup"
    /\ cache_stats'.total_requests = cache_stats.total_requests + 1

\* The key of the query looked up in the step.
LookupKey == _generate_cache_key(last'.query)

\* Before the step the key has an entry and every copy of it is expired.
StoredExpired ==
    /\ DictHas(memory_cache, LookupKey) \/ LookupKey \in DOMAIN files
    /\ DictHas(memory_cache, LookupKey)
          => ~_is_cache_valid(DictGet(memory_cache, LookupKey), now)
    /\ LookupKey \in DOMAIN files
          => ~_is_cache_valid(files[LookupKey].item, now)

\* Before the step the key has a valid entry in the cache directory only.
ValidOnlyDurable ==
    /\ ~DictHas(memory_cache, LookupKey)
    /\ LookupKey \in DOMAIN files
    /\ _is_cache_valid(files[LookupKey].item, now)

StoredOverCapacity ==
    /\ budget.stores > max_memory_items
    /\ Cardinality(DOMAIN files) = budget.stores

\* C10: after max_memory_items + k stores under distinct keys the memory
\* cache holds exactly max_memory_items entries.
C10_EvictionBound ==
    (last.op = "store" /\ StoredOverCapacity)
        => Len(memory_cache) = max_memory_items

\* ------------------------------------------------------------------- C1
\* The first two calls were made with the same query, on the CacheModule
\* cache, the second before the entry of the first could expire, no step of
\* either raised, and the first response was not empty.
SameQueryTwice ==
    /\ modules.kind = "full"
    /\ Len(history) >= 2
    /\ history[1].query = history[2].query
    /\ history[2].started < history[1].started + ttl_hours
    /\ history[1].fault # "stage" /\ history[2].fault # "stage"
    /\ ~history[1].empty

\* C1: the identical query submitted twice, with the CacheModule cache and no
\* expiry in between, gives a first result with cache_hit false and a second
\* with cache_hit true and the department of the first.
C1_HitOnSecondCall ==
    SameQueryTwice =>
        /\ ~history[1].cache_hit
        /\ history[2].cache_hit
        /\ history[2].department = history[1].department

\* ------------------------------------------------------------------- C3
\* C3: a lookup never returns an entry whose age, now minus its creation
\* time, is at least the TTL.
C3_NoStaleEntry ==
    (last.op = "lookup" /\ last.served # NoItem)
        => last.at - last.served.timestamp.t < ttl_hours

\* ------------------------------------------------------------------- C4
\* C4: every call of process_civic_query returns a result, and the result's
\* response text is not empty.
C4_ResponseNonEmpty == pc = "Done" => result.response # <<>>

\* ------------------------------------------------------------------- C7
\* C7: the result returned on a fault carries no text of the exception.
C7_NoRawError ==
    (pc = "Done" /\ LastCall.fault # "none") => "error" \notin DOMAIN result

\* ------------------------------------------------------------------- C5
\* The stages of a call that misses the cache, in order.
MissStages ==
    <<"Received", "CacheCheck", "Classify", "Retrieve", "Reason", "Compose",
      "CacheWrite", "Done">>

\* The cache the pipeline writes to holds response r for query q.
CachedFor(q, r) ==
    IF modules.kind = "basic"
    THEN /\ query_hash(q) \in DOMAIN basic_cache
         /\ basic_cache[query_hash(q)].response = r
    ELSE /\ DictHas(memory_cache, _generate_cache_key(q))
         /\ DictGet(memory_cache, _generate_cache_key(q)).response = r

\* The last call missed the cache and returned with no step raising.
CompletedMiss == pc = "Done" /\ LastCall.fault = "none" /\ ~result.cache_hit

\* C5: on a cache miss with no failure the stages run once each in the order
\* CacheCheck, Classify, Retrieve, Reason, Compose, CacheWrite, Done; no stage
\* is revisited; the cache is written exactly once, with the composed
\* response, before the result is returned.
C5_StageOrder ==
    /\ \A i, j \in 1..Len(stages) : i # j => stages[i] # stages[j]
    /\ \A i \in 1..Len(stages) : i <= Len(MissStages) /\ (stages[i] # "Done" => stages[i] = MissStages[i])
    /\ pc = "Return" => CachedFor(run.query, run.response)
    /\ CompletedMiss =>
          /\ stages = MissStages
          /\ Cardinality({i \in 1..Len(stages) : stages[i] = "CacheWrite"}) = 1
          /\ CachedFor(LastCall.query, result.response)

\* A call with a generated response went through every stage and returned.
C5_MissCompleted ==
    /\ CompletedMiss
    /\ modules.api_key
    /\ stages = MissStages
    /\ result.response = <<"generated answer">>

\* ------------------------------------------------------------------- C6
\* C6: a call in which a step raised returns the fixed apology with
\* department "System", cache_hit false and the time elapsed up to the
\* failure; no other call is reported under "System".
C6_FaultResult ==
    pc = "Done" =>
        /\ LastCall.fault # "none" <=> result.department = "System"
        /\ LastCall.fault # "none" =>
              /\ result.response = ApologyText
              /\ ~result.cache_hit
              /\ result.processing_time = LastCall.finished - LastCall.started

\* A step raised after the clock had advanced during the call.
C6_FaultAfterDelay ==
    /\ pc = "Done"
    /\ LastCall.fault = "stage"
    /\ result.department = "System"
    /\ result.processing_time > 0

\* ------------------------------------------------------------------ C11
\* The step is a call of optimize_cache: no store, no lookup, no clock tick.
OptimizeStep ==
    /\ now' = now
    /\ cache_stats' = cache_stats
    /\ budget' = budget

\* The keys the step drops from the memory cache.
Evicted == DictKeys(memory_cache) \ DictKeys(memory_cache')

C12_AtomicWrite ==
    [][/\ LookupStep =>
            ~(LookupKey \in BeingWritten /\ ReadsFile(Cache, last'.query, now))
       /\ \A k \in BeingWritten : k \in DOMAIN files']_vars

\* ------------------------------------------------------------------ C13
\* C13: a lookup that reads a malformed file (text that is no JSON, JSON that
\* is no object, an object without timestamp or response) returns absent and
\* removes the file from the directory.
C13_MalformedDeleted ==
    [][(/\ LookupStep
        /\ last'.io = "ok"
        /\ ReadsFile(Cache, last'.query, now)
        /\ IsMalformed(files[LookupKey]))
          => /\ last'.ret = PyNone
             /\ LookupKey \notin DOMAIN files']_vars

\* ------------------------------------------------------------------ C14
\* The step is a call of cache_response.
StoreStep ==
    /\ last'.op = "store"
    /\ budget'.stores = budget.stores + 1

\* C14: lookup and store never raise to their caller: every lookup returns,
\* a lookup in which open() or unlink() failed returns absent and counts a
\* miss, and every store, also one whose file write failed, leaves its item
\* in the memory cache.
C14_NeverRaises ==
    [][/\ LookupStep => ~last'.raised
       /\ (LookupStep /\ last'.io # "ok") =>
             /\ last'.ret = PyNone
             /\ cache_stats'.misses = cache_stats.misses + 1
       /\ StoreStep =>
             /\ DictHas(memory_cache', _generate_cache_key(last'.query))
             /\ DictGet(memory_cache', _generate_cache_key(last'.query))
                  = NewItem(last'.query, last'.input.response,
                            last'.input.department, last'.input.sources, now)]_vars

\* A lookup whose unlink() failed returned absent and counted a miss; the
\* file is still in the directory.
C14_UnlinkFailed ==
    /\ last.op = "lookup"
    /\ last.io = "unlink_error"
    /\ ~last.raised
    /\ last.ret = PyNone
    /\ cache_stats.misses = 1
    /\ _generate_cache_key(last.query) \in DOMAIN files

\* A step of startup rehydration.
RestartStep == last'.op = "restart"

\* The files that are among the load_limit most recently modified however
\* ties are ordered, and those that are among them for some order.
SurelyRecent(fs) ==
    {k \in DOMAIN fs :
        Cardinality({x \in (DOMAIN fs) \ {k} : fs[x].mtime >= fs[k].mtime}) < load_limit}
PossiblyRecent(fs) ==
    {k \in DOMAIN fs :
        Cardinality({x \in DOMAIN fs : fs[x].mtime > fs[k].mtime}) < load_limit}

\* C15: after startup rehydration the memory cache holds at most load_limit
\* entries, all unexpired, all taken from the load_limit most recently
\* modified files; and every unexpired record among those files is loaded,
\* whatever malformed file stands beside it.
C15_Rehydration ==
    [][RestartStep =>
         /\ Len(memory_cache') <= load_limit
         /\ \A i \in 1..Len(memory_cache') : _is_cache_valid(memory_cache'[i].v, now)
         /\ DictKeys(memory_cache') \subseteq PossiblyRecent(files)
         /\ \A k \in SurelyRecent(files) :
               (files[k].kind = "json" /\ _is_cache_valid(files[k].item, now))
                  => DictHas(memory_cache', k)]_vars

\* The query and the data of a classification that has been made.
Classified == cq.pc \in {"classified", "retrieved"}

\* C16: on the complete data, a query that contains the name of a zone
\* (case-insensitive) is classified as that zone, whatever pincode, pincode
\* area name or well-known area name the query contains as well.
C16_ZoneMatch ==
    (Classified /\ cq.data = "complete") =>
        \A i \in 1..Len(zones_complete) :
            contains(lower(cq.query), lower(ZoneName(zones_complete[i].zone_name)))
               => /\ cq.area_info.type = "zone"
                  /\ cq.area_info.zone_number = zones_complete[i].zone_name

\* Whether a keyword of category i of issue_keywords occurs in the lowercased
\* query.
HasKeyword(i, query) ==
    \E j \in 1..Len(issue_keywords[i][2]) :
        contains(lower(query), issue_keywords[i][2][j])

\* C17: the issue type of a query is the first category, in the order
\* water_supply, electricity, garbage_collection, roads, transport, with a
\* keyword that is a substring of the lowercased query, and "general" when
\* no keyword of any category occurs.
C17_FirstCategory ==
    Classified =>
        /\ [i \in 1..Len(issue_keywords) |-> issue_keywords[i][1]]
              = <<"water_supply", "electricity", "garbage_collection", "roads",
                  "transport">>
        /\ IF \A i \in 1..Len(issue_keywords) : ~HasKeyword(i, cq.query)
           THEN cq.issue_type = "general"
           ELSE \E i \in 1..Len(issue_keywords) :
                   /\ HasKeyword(i, cq.query)
                   /\ \A j \in 1..(i - 1) : ~HasKeyword(j, cq.query)
                   /\ cq.issue_type = issue_keywords[i][1]

\* A query with keywords of the first and of the last category was given the
\* first.
C17_SeveralCategories ==
    /\ Classified
    /\ HasKeyword(1, cq.query)
    /\ HasKeyword(5, cq.query)
    /\ cq.issue_type = "water_supply"

\* Whether the query names no area: no zone, no pincode, no pincode area and
\* no well-known area.
NoAreaKeyword(data, query) ==
    /\ \A i \in 1..Len(data.zones_complete) :
          ~contains(lower(query), lower(zone_display(data.zones_complete[i].zone_name)))
    /\ \A i \in 1..Len(data.pincode_mapping) :
          /\ ~contains(query, data.pincode_mapping[i][1])
          /\ ~contains(lower(query), lower(data.pincode_mapping[i][2]))
    /\ \A i \in 1..Len(common_areas) : ~contains(lower(query), common_areas[i])

C19_SameDepartment ==
    cq.pc = "retrieved" =>
        cq.civic_info.department = _get_department_info(cq.issue_type).name

\* The role names escalation_chains lists for the department of an issue
\* type, <<>> when it lists none.
ChainOf(issue_type) ==
    LET dept == _get_department_info(issue_type).name
        hits == {i \in 1..Len(escalation_chains) : escalation_chains[i][1] = dept}
    IN  IF hits = {} THEN <<>> ELSE escalation_chains[CHOOSE i \in hits : TRUE][2]

\* C20: the escalation path the graph reasoner returns for an issue type is
\* the list of role names of its department, lowest level first; for
\* water_supply: Area Engineer, Executive Engineer, Superintending Engineer,
\* Chief Engineer.
C20_EscalationChain ==
    (cq.pc = "reasoned" /\ cq.outcome = "ok") =>
        /\ cq.contextual_info.escalation_path = ChainOf(cq.issue_type)
        /\ cq.issue_type = "water_supply" =>
              cq.contextual_info.escalation_path
                 = <<"Area Engineer", "Executive Engineer",
                     "Superintending Engineer", "Chief Engineer">>

\* C21: whichever way the reasoning result is produced (the graph answers,
\* graph reasoning raises, or there is no graph module), it has an escalation
\* path that is not empty and a list of recommendations that is not empty.
C21_ReasoningNonEmpty ==
    cq.pc = "reasoned" =>
        /\ "escalation_path" \in DOMAIN cq.contextual_info
        /\ cq.contextual_info.escalation_path # <<>>
        /\ cq.contextual_info.recommendations # <<>>

\* C22: when the generative call fails, the response is the template text:
\* it names the department and the contact of the retrieval result and has
\* the three immediate steps, the "24-48 hours" line and the escalation
\* note; the failure does not leave generate_ai_response.
C22_TemplateOnFailure ==
    (cq.pc = "composed" /\ cq.api_key /\ cq.generated = "raises") =>
        LET text == {cq.response[i] : i \in 1..Len(cq.response)}
        IN  /\ cq.civic_info.department \in text
            /\ cq.civic_info.contact \in text
            /\ {"1. Call", "to register your complaint",
                "2. Note down the complaint number for tracking",
                "3. Provide exact address and description of issue"} \subseteq text
            /\ "Expected Response Time: 24-48 hours for most issues" \in text
            /\ "Escalation: If no response within expected time, contact the zone office"
                  \in text

\* The generative call failed on a transport query and the text names TNSTC
\* and its contact.
C22_FailedCall ==
    /\ cq.pc = "composed"
    /\ cq.api_key
    /\ cq.generated = "raises"
    /\ cq.issue_type = "transport"
    /\ \E i \in 1..Len(cq.response) : cq.response[i] = "TNSTC"
    /\ \E i \in 1..Len(cq.response) : cq.response[i] = "1800-599-1500"

\* C23: when one of the two documents, or both, are missing at startup, the
\* data in use is the substituted data (4 departments, 5 pincodes), and every
\* query is still classified into an area and an issue type and given one of
\* the four departments with its contact.
C23_FallbackData ==
    (cq.pc \in {"input", "classified", "retrieved"} /\ cq.docs # Documents) =>
        /\ cq.data = "fallback"
        /\ LoadedData(cq.data) = FallbackData
        /\ Cardinality(DOMAIN departments_complete) = 4
        /\ Len(LoadedData(cq.data).pincode_mapping) = 5
        /\ cq.pc \in {"classified", "retrieved"} =>
              /\ cq.area_info.type \in {"pincode_area", "area", "general"}
              /\ cq.area_info.name # ""
              /\ cq.issue_type \in
                    {"water_supply", "electricity", "garbage_collection", "roads",
                     "transport", "general"}
        /\ cq.pc = "retrieved" =>
              /\ \E k \in DOMAIN departments_complete :
                    /\ cq.civic_info.department = replace(k, "_", " ")
                    /\ cq.path # "raises" =>
                          cq.civic_info.contact = departments_complete[k].main_contact
              /\ cq.civic_info.contact # ""

\* Only the pincode document was missing; "Manali", a pincode area of the
\* document, is not known to the substituted data and the query was answered
\* all the same.
C23_PincodeDocumentMissing ==
    /\ cq.pc = "retrieved"
    /\ cq.docs = {"chennai_complete_civic_data.json"}
    /\ cq.query = "Manali"
    /\ cq.area_info = [type |-> "general", name |-> "Chennai"]
    /\ cq.civic_info.department = "Greater Chennai Corporation"

\* C24: the counters add up: hits + misses = total_requests after every
\* sequence of lookups, whatever the files hold.
C24_CountersAddUp ==
    cache_stats.hits + cache_stats.misses = cache_stats.total_requests

\* C25: every key of the memory cache has a file in the directory.
C25_MemoryHasFile == DictKeys(memory_cache) \subseteq DOMAIN files

\* C26: two queries that differ only in letter case, in the length of their
\* whitespace runs, in leading or trailing whitespace or in occurrences of
\* the punctuation marks .,!?;: have the same cache key.  Two such queries
\* are equal once the marks are erased, the letters lowered and the
\* whitespace collapsed and stripped.
C26_SameKey ==
    LET Erased(x) == strip(join_split(RemoveChars(lower(x), 1)))
    IN  nq.pc = "once" =>
            \A y \in StringsUpTo(MaxLen) :
                Erased(y) = Erased(nq.input) =>
                    _generate_cache_key(y) = "civic_query_" \o nq.once

\* C27: the sources of a result returned on a cache hit are the sources of
\* the result the run that missed the cache and stored the response returned
\* for the same query.
C27_SourcesOnHit ==
    \A j \in 1..Len(history) : \A i \in 1..(j - 1) :
        ( /\ history[j].cache_hit
          /\ history[i].query = history[j].query
          /\ ~history[i].cache_hit /\ history[i].fault = "none"
          /\ \A k \in (i + 1)..(j - 1) : history[k].query # history[j].query )
            => history[j].sources = history[i].sources

\* C28: the text composed when the generative call fails is the text the
\* same query gets when no credential is configured.
C28_SameTemplate ==
    (cq.pc = "composed" /\ cq.api_key /\ cq.generated = "raises")
        => cq.response = generate_fallback_response(cq.query, cq.area_info,
                                                    cq.issue_type, cq.civic_info)

\* C29: a parameter update runs once per update_every recorded feedback
\* entries: after n calls of record_feedback the count of updates is the
\* integer part of n / update_every.
C29_UpdatePerTen ==
    fl_manager.learning_metrics.model_updates
        = fl_manager.learning_metrics.total_feedback \div update_every

\* C30: a submitted query adds one to the counter of its category, the
\* counter Other being that of the category general, and to no other
\* counter.
C30_CategoryCounter ==
    [][ (pc \in {"Idle", "Done"} /\ pc' = "CacheCheck") =>
          LET issue_type == identify_issue_type(run'.query)
              name == IF issue_type = "general" THEN "Other"
                      ELSE title(replace(issue_type, "_", " "))
          IN  session_state'.category_stats =
                  [session_state.category_stats EXCEPT ![name] = @ + 1] ]_vars

====
